---- MODULE Spec2Model ----
(***************************************************************************)
(* Model of the MLS/ABAC query engine of Graf: the access policy          *)
(* (lib/policy.ts), the in-memory store (lib/dataStore.ts) and the query   *)
(* pipeline and graph views (lib/queryEngine.ts).                          *)
(***************************************************************************)
EXTENDS Integers, Sequences, FiniteSets, TLC

VARIABLES
  polUser, polNodes, polResult, polSector, polPc, timezone,
  now, usersStore, nodesStore, edgesStore, auditLogStore,
  session, ledger, execs, returned, started, queryTexts,
  views, storeOps, opResult

polVars == <<polUser, polNodes, polResult, polSector, polPc, timezone>>
storeVars == <<now, usersStore, nodesStore, edgesStore, auditLogStore>>
queryVars == <<session, ledger, execs, returned, started, queryTexts>>
viewVars == <<views, storeOps, opResult>>
vars == <<polVars, storeVars, queryVars, viewVars>>

(***************************************************************************)
(* Values.  An attribute that is absent reads as undefined in the source;  *)
(* NoAttr stands for it among strings and NoNum among numbers.  The empty  *)
(* string is the other falsy string.                                       *)
(***************************************************************************)
NoAttr == "undefined"
NoNum == 0 - 1
Truthy(s) == s # NoAttr /\ s # ""

\* Minutes since 2024-05-12T00:00Z: the timestamps of the graph data.
HM(h, m) == h * 60 + m

\* timezone is the offset of the runtime's local time from UTC, in hours.
UTC == 0

Attrs(sector, category, status, last_seen, timestamp, speed, threat_level) ==
  [sector |-> sector, category |-> category, status |-> status,
   last_seen |-> last_seen, timestamp |-> timestamp, speed |-> speed,
   threat_level |-> threat_level]

buildNodeId(logicalId, level) == logicalId \o "_" \o level

Node(logical_id, level, entity_type, attributes, created_at, updated_at) ==
  [id |-> buildNodeId(logical_id, level), logical_id |-> logical_id,
   classification_level |-> level, entity_type |-> entity_type,
   attributes |-> attributes, created_at |-> created_at,
   updated_at |-> updated_at]

Edge(logical_id, level, source_node_id, target_node_id, relation_type) ==
  [id |-> buildNodeId(logical_id, level), logical_id |-> logical_id,
   classification_level |-> level, source_node_id |-> source_node_id,
   target_node_id |-> target_node_id, relation_type |-> relation_type,
   attributes |-> [sector |-> NoAttr]]


(***************************************************************************)
(* data/graphData.ts: the nodes and edges the store is seeded with         *)
(***************************************************************************)
graphNodes ==
  <<
    Node("target_uav_1", "CONFIDENTIAL", "Target",
         Attrs("A", "UAV", NoAttr, HM(9, 55), NoNum, 180, "elevated"),
         HM(10, 0), HM(10, 0)),
    Node("target_uav_2", "CONFIDENTIAL", "Target",
         Attrs("A", "UAV", NoAttr, HM(9, 50), NoNum, 160, "medium"),
         HM(10, 0), HM(10, 0)),
    Node("target_group_sector_b", "CONFIDENTIAL", "Target",
         Attrs("B", "AirGroup", NoAttr, HM(9, 42), NoNum, NoNum, "high"),
         HM(10, 0), HM(10, 0)),
    Node("target_activity_sector_c", "CONFIDENTIAL", "Target",
         Attrs("C", "UAV", NoAttr, HM(9, 48), NoNum, NoNum, "medium"),
         HM(10, 0), HM(10, 0)),
    Node("event_intercept_1", "CONFIDENTIAL", "Event",
         Attrs("A", NoAttr, NoAttr, NoNum, HM(9, 45), NoNum, NoAttr),
         HM(10, 0), HM(10, 0)),
    Node("event_warning_b", "CONFIDENTIAL", "Event",
         Attrs("B", NoAttr, NoAttr, NoNum, HM(9, 40), NoNum, NoAttr),
         HM(10, 0), HM(10, 0)),
    Node("target_uav_1", "SECRET", "Target",
         Attrs("A", "UAV", NoAttr, HM(9, 58), NoNum, 180, "HIGH"),
         HM(10, 0), HM(10, 0)),
    Node("target_uav_2", "SECRET", "Target",
         Attrs("A", "UAV", NoAttr, HM(9, 52), NoNum, 165, "MEDIUM"),
         HM(10, 0), HM(10, 0)),
    Node("target_unknown_3", "SECRET", "Target",
         Attrs("B", "Unknown", NoAttr, HM(9, 40), NoNum, 210, "HIGH"),
         HM(10, 0), HM(10, 0)),
    Node("target_uav_4", "SECRET", "Target",
         Attrs("C", "UAV", NoAttr, HM(9, 49), NoNum, 190, "MEDIUM"),
         HM(10, 0), HM(10, 0)),
    Node("target_helicopter_5", "SECRET", "Target",
         Attrs("B", "Helicopter", NoAttr, HM(9, 43), NoNum, 210, "HIGH"),
         HM(10, 0), HM(10, 0)),
    Node("sensor_radar_a", "CONFIDENTIAL", "Sensor",
         Attrs("A", NoAttr, "online", NoNum, NoNum, NoNum, NoAttr),
         HM(10, 0), HM(10, 0)),
    Node("sensor_optic_a", "CONFIDENTIAL", "Sensor",
         Attrs("A", NoAttr, "offline", NoNum, NoNum, NoNum, NoAttr),
         HM(10, 0), HM(10, 0)),
    Node("sensor_radar_b", "SECRET", "Sensor",
         Attrs("B", NoAttr, "online", NoNum, NoNum, NoNum, NoAttr),
         HM(10, 0), HM(10, 0)),
    Node("sensor_sigint_c", "SECRET", "Sensor",
         Attrs("C", NoAttr, "online", NoNum, NoNum, NoNum, NoAttr),
         HM(10, 0), HM(10, 0)),
    Node("command_center_alpha", "SECRET", "CommandPost",
         Attrs("A", NoAttr, "operational", NoNum, NoNum, NoNum, NoAttr),
         HM(10, 0), HM(10, 0)),
    Node("event_intercept_1", "SECRET", "Event",
         Attrs("A", NoAttr, NoAttr, NoNum, HM(9, 45), NoNum, NoAttr),
         HM(10, 0), HM(10, 0)),
    Node("event_alert_sector_b", "SECRET", "Event",
         Attrs("B", NoAttr, NoAttr, NoNum, HM(9, 38), NoNum, NoAttr),
         HM(10, 0), HM(10, 0)),
    Node("event_sigint_ping", "SECRET", "Event",
         Attrs("C", NoAttr, NoAttr, NoNum, HM(9, 47), NoNum, NoAttr),
         HM(10, 0), HM(10, 0))
  >>

graphEdges ==
  <<
    Edge("rel_event_group_b", "CONFIDENTIAL", "event_warning_b_CONFIDENTIAL",
         "target_group_sector_b_CONFIDENTIAL", "ASSOCIATED_WITH"),
    Edge("rel_detect_1", "SECRET", "sensor_radar_a_CONFIDENTIAL",
         "target_uav_1_SECRET", "DETECTED_BY"),
    Edge("rel_detect_2", "SECRET", "sensor_radar_a_CONFIDENTIAL",
         "target_uav_2_SECRET", "DETECTED_BY"),
    Edge("rel_event_target", "SECRET", "event_intercept_1_SECRET",
         "target_uav_1_SECRET", "ASSOCIATED_WITH"),
    Edge("rel_detect_3", "SECRET", "sensor_radar_b_SECRET",
         "target_helicopter_5_SECRET", "DETECTED_BY"),
    Edge("rel_detect_4", "SECRET", "sensor_sigint_c_SECRET",
         "target_uav_4_SECRET", "TRACKED_BY"),
    Edge("rel_command_1", "SECRET", "command_center_alpha_SECRET",
         "sensor_radar_a_CONFIDENTIAL", "COMMANDS"),
    Edge("rel_command_2", "SECRET", "command_center_alpha_SECRET",
         "sensor_optic_a_CONFIDENTIAL", "COMMANDS"),
    Edge("rel_event_b1", "SECRET", "event_alert_sector_b_SECRET",
         "target_helicopter_5_SECRET", "ASSOCIATED_WITH"),
    Edge("rel_event_b2", "SECRET", "event_alert_sector_b_SECRET",
         "sensor_radar_b_SECRET", "TRIGGERED_BY"),
    Edge("rel_event_c1", "SECRET", "event_sigint_ping_SECRET",
         "sensor_sigint_c_SECRET", "REPORTED_BY"),
    Edge("rel_event_c2", "SECRET", "event_sigint_ping_SECRET",
         "target_uav_4_SECRET", "ASSOCIATED_WITH")
  >>

(***************************************************************************)
(* lib/policy.ts                                                           *)
(***************************************************************************)
CLEARANCE_LEVELS(level) ==
  CASE level = "UNCLASSIFIED" -> 0
    [] level = "CONFIDENTIAL" -> 1
    [] level = "SECRET" -> 2
    [] OTHER -> 0

checkClearanceStrict(userLevel, dataLevel) ==
  CLEARANCE_LEVELS(userLevel) > CLEARANCE_LEVELS(dataLevel)

checkClearance(userLevel, dataLevel) ==
  CLEARANCE_LEVELS(userLevel) >= CLEARANCE_LEVELS(dataLevel)

checkSectorAccessDataFirst(user, data) ==
  IF user.attributes.role = "commander" THEN TRUE
  ELSE IF ~Truthy(data.attributes.sector) THEN TRUE
  ELSE IF ~Truthy(user.attributes.sector) THEN FALSE
  ELSE user.attributes.sector = data.attributes.sector

checkSectorAccess(user, data) ==
  IF user.attributes.role = "commander" THEN TRUE
  ELSE IF ~Truthy(user.attributes.sector) THEN FALSE
  ELSE IF ~Truthy(data.attributes.sector) THEN TRUE
  ELSE user.attributes.sector = data.attributes.sector

accessible(user, item) ==
  /\ checkClearance(user.clearance_level, item.classification_level)
  /\ checkSectorAccess(user, item)

filterAccessibleNodes(user, nodes) ==
  SelectSeq(nodes, LAMBDA node : accessible(user, node))

filterAccessibleEdges(user, edges) ==
  SelectSeq(edges, LAMBDA edge : accessible(user, edge))

checkKAnonymityOne(resultCount) == resultCount >= 1

\* minK keeps its default, 2: no caller passes it.
checkKAnonymity(resultCount) == resultCount >= 2

checkQueryBudgetZero(user) == user.query_budget >= 0

checkQueryBudget(user) == user.query_budget > 0


(***************************************************************************)
(* data/usersData.ts and lib/dataStore.ts: users and their budget          *)
(***************************************************************************)
\* Wall-clock time is counted in milliseconds since the module was loaded.
ResetPeriod == 60 * 60 * 1000
TickMs == ResetPeriod
MaxTicks == 1

UserIds == {"local-analyst_a", "local-commander"}

User(id, username, level, sector, role, budget, resetAt) ==
  [id |-> id, username |-> username, clearance_level |-> level,
   attributes |-> [sector |-> sector, role |-> role],
   query_budget |-> budget, budget_reset_at |-> resetAt]

users ==
  [id \in UserIds |->
     IF id = "local-analyst_a"
     THEN User(id, "analyst_a", "CONFIDENTIAL", "A", "analyst", 8, ResetPeriod)
     ELSE User(id, "commander", "SECRET", "ALL", "commander", 20, ResetPeriod)]

getMaxBudget(level) ==
  CASE level = "SECRET" -> 20
    [] level = "CONFIDENTIAL" -> 8
    [] OTHER -> 5

maybeResetBudgetLate(user, t) ==
  IF t > user.budget_reset_at
  THEN [user EXCEPT !.query_budget = getMaxBudget(user.clearance_level),
                    !.budget_reset_at = t + ResetPeriod]
  ELSE user

\* The user as maybeResetBudget leaves it when called at time t.
maybeResetBudget(user, t) ==
  IF t >= user.budget_reset_at
  THEN [user EXCEPT !.query_budget = getMaxBudget(user.clearance_level),
                    !.budget_reset_at = t + ResetPeriod]
  ELSE user

toLowerCase(s) ==
  CASE s = "ANALYST_A" -> "analyst_a"
    [] s = "HIGH" -> "high"
    [] s = "MEDIUM" -> "medium"
    [] OTHER -> s

Usernames == {"ANALYST_A", "commander", "guest"}

\* usersStore.find by username (case-insensitive) or by id; NoAttr for none.
idOfUsername(username) ==
  IF \E id \in UserIds : toLowerCase(usersStore[id].username) = toLowerCase(username)
  THEN CHOOSE id \in UserIds :
         toLowerCase(usersStore[id].username) = toLowerCase(username)
  ELSE NoAttr

storeDecrementNoGuard(user, t) ==
  [maybeResetBudget(user, t) EXCEPT !.query_budget = @ - 1]

\* The stored user after decrementBudget ran at time t.
storeDecrement(user, t) ==
  LET u == maybeResetBudget(user, t)
  IN IF u.query_budget > 0 THEN [u EXCEPT !.query_budget = @ - 1] ELSE u


(***************************************************************************)
(* lib/queryEngine.ts: the parser.  A query text is the set of phrases it  *)
(* is made of; Contains(p) lists the keywords of the parser's tables that  *)
(* occur in phrase p, so that text.includes(k) is a lookup.  Cyrillic      *)
(* words are written transliterated, with the prefix ru:.                  *)
(***************************************************************************)
Contains(phrase) ==
  CASE phrase = "ru:sensory" -> {"ru:sensor"}
    [] phrase = "ru:sobytiya" -> {"ru:sobyti"}
    [] phrase = "ru:bespilotniki" -> {"ru:bespilotn"}
    [] phrase = "targets" -> {"target"}
    [] phrase = "uav" -> {"uav"}
    [] phrase = "offline" -> {"offline"}
    [] phrase = "online" -> {"online"}
    [] phrase = "ru:v ru:sektore a" -> {"ru:sektor"}
    [] phrase = "sector b" -> {"sector"}
    [] phrase = "ru:sekretnye" -> {"ru:sekret", "ru:sekretn"}
    [] OTHER -> {}

includes(text, keyword) == \E p \in text : keyword \in Contains(p)

ENTITY_KEYWORDS ==
  << [keywords |-> {"ru:bespilotn", "ru:dron", "uav", "ru:bpla"},
      entityType |-> "Target", category |-> "uav"],
     [keywords |-> {"ru:cel'", "target", "object"},
      entityType |-> "Target", category |-> NoAttr],
     [keywords |-> {"ru:sensor", "sensor", "ru:radar", "ru:radiolok"},
      entityType |-> "Sensor", category |-> NoAttr],
     [keywords |-> {"ru:sobyti", "event", "ru:incident", "ru:operaciya"},
      entityType |-> "Event", category |-> NoAttr],
     [keywords |-> {"ru:sektor", "sector"},
      entityType |-> "Sector", category |-> NoAttr] >>

STATUS_KEYWORDS ==
  << <<"offline", "offline">>, <<"ru:nedostupn", "offline">>,
     <<"ru:nerabotayusch", "offline">>, <<"ru:obestochen", "offline">>,
     <<"online", "online">>, <<"ru:rabotosposobn", "online">>,
     <<"ru:vkl", "online">>, <<"ru:aktivn", "online">> >>

CATEGORY_KEYWORDS ==
  << <<"uav", "uav">>, <<"ru:bpla", "uav">>, <<"helikopter", "helicopter">>,
     <<"ru:vertolet", "helicopter">>, <<"helicopter", "helicopter">>,
     <<"unknown", "unknown">>, <<"group", "airgroup">> >>

LEVEL_KEYWORDS ==
  << <<"ru:sekret", "SECRET">>, <<"secret", "SECRET">>,
     <<"ru:uroven' h", "SECRET">>, <<"ru:uroven' m", "CONFIDENTIAL">>,
     <<"confid", "CONFIDENTIAL">>, <<"ru:sekretn", "SECRET">>,
     <<"dsp", "CONFIDENTIAL">>, <<"confidential", "CONFIDENTIAL">>,
     <<"unclassified", "UNCLASSIFIED">>, <<"ru:uroven' l", "UNCLASSIFIED">>,
     <<"ru:obschedostupn", "UNCLASSIFIED">> >>

\* The first entry of ENTITY_KEYWORDS with a keyword in the text, or none.
detectEntity(text) ==
  LET hits == {i \in DOMAIN ENTITY_KEYWORDS :
                 \E k \in ENTITY_KEYWORDS[i].keywords : includes(text, k)}
  IN IF hits = {}
     THEN [entityType |-> NoAttr, category |-> NoAttr]
     ELSE LET first == CHOOSE i \in hits : \A j \in hits : i <= j
          IN [entityType |-> ENTITY_KEYWORDS[first].entityType,
              category |-> ENTITY_KEYWORDS[first].category]

\* The upper-cased sector letters captured by the two sector patterns.
extractSectorFilters(text) ==
  {s \in {"A", "B"} :
     \/ s = "A" /\ "ru:v ru:sektore a" \in text
     \/ s = "B" /\ "sector b" \in text}

extractStatusFilters(text) ==
  {STATUS_KEYWORDS[i][2] : i \in {j \in DOMAIN STATUS_KEYWORDS :
                                    includes(text, STATUS_KEYWORDS[j][1])}}

extractCategoryFilters(text) ==
  {CATEGORY_KEYWORDS[i][2] : i \in {j \in DOMAIN CATEGORY_KEYWORDS :
                                      includes(text, CATEGORY_KEYWORDS[j][1])}}

extractLevel(text) ==
  LET hits == {i \in DOMAIN LEVEL_KEYWORDS : includes(text, LEVEL_KEYWORDS[i][1])}
  IN IF hits = {} THEN NoAttr
     ELSE LEVEL_KEYWORDS[CHOOSE i \in hits : \A j \in hits : i <= j][2]

\* The number after the first of the words of the limit pattern, "top" or
\* the Russian for "the last"; NoNum when the text names no limit.  A text
\* that holds several of the phrases has them in the order of this test.
extractLimit(text) ==
  IF "top 1" \in text THEN 1
  ELSE IF "top 2" \in text THEN 2
  ELSE IF "ru:poslednie 30 ru:minut" \in text THEN 30
  ELSE NoNum

\* A time window is counted in sixtieths of an hour, so that value / 60
\* is a whole number here.
toHours(value, unit) ==
  IF unit \in {"ru:minut", "ru:min", "minute", "minutes"} THEN value
  ELSE IF unit \in {"ru:dney", "day", "days"} THEN value * 24 * 60
  ELSE value * 60

\* The first of the three window patterns that matches, then the phrases
\* of the fixed window; NoNum when the text names no window.
extractTimeWindow(text) ==
  IF "ru:poslednie 30 ru:minut" \in text THEN toHours(30, "ru:minut")
  ELSE IF "within 2 hours" \in text THEN toHours(2, "hours")
  ELSE IF "ru:pryamo seychas" \in text THEN 15
  ELSE NoNum

NoGeo == [lat |-> NoAttr, lon |-> NoAttr, radiusKm |-> NoNum]

\* The coordinates after "lat", with the default radius.
extractGeoFilter(text) ==
  IF "lat 54.2101, 37.5203" \in text
  THEN [lat |-> "54.2101", lon |-> "37.5203", radiusKm |-> 10]
  ELSE NoGeo

ATTRIBUTE_ALIASES ==
  << <<"ru:skorost", "speed">>, <<"speed", "speed">>,
     <<"heading", "heading">>, <<"ru:kurs", "heading">>,
     <<"ru:vysot", "altitude">>, <<"altitude", "altitude">>,
     <<"ru:ugroz", "threat_level">>, <<"threat", "threat_level">>,
     <<"status", "status">>, <<"ru:status", "status">>,
     <<"ru:operacion", "operational">>, <<"distance", "distance">> >>

\* The attribute of the first alias the identifier includes; NoAttr for an
\* identifier that includes none.  The identifiers of the phrases include
\* an alias only as a whole.
\* An alias table that takes every identifier for an attribute name.
normalizeAttributeAliasAny(alias) == alias

normalizeAttributeAlias(alias) ==
  LET hits == {i \in DOMAIN ATTRIBUTE_ALIASES : ATTRIBUTE_ALIASES[i][1] = alias}
  IN IF hits = {} THEN NoAttr
     ELSE ATTRIBUTE_ALIASES[CHOOSE i \in hits : \A j \in hits : i <= j][2]

\* What the comparison pattern captures in a phrase: identifier, operator
\* and value (a number, or a word); <<>> for a phrase it does not match.
Captures(phrase) ==
  CASE phrase = "speed > 170" ->
         <<[identifier |-> "speed", operator |-> ">", number |-> 170,
            word |-> NoAttr]>>
    [] phrase = "threat >= high" ->
         <<[identifier |-> "threat", operator |-> ">=", number |-> NoNum,
            word |-> "high"]>>
    [] phrase = "zzz > 5" ->
         <<[identifier |-> "zzz", operator |-> ">", number |-> 5,
            word |-> NoAttr]>>
    [] OTHER -> <<>>

\* The captured comparisons whose identifier has an alias.
extractComparisons(text) ==
  {[attribute |-> normalizeAttributeAlias(Captures(p)[1].identifier),
    operator |-> Captures(p)[1].operator,
    number |-> Captures(p)[1].number,
    word |-> Captures(p)[1].word] :
     p \in {q \in text :
              /\ Captures(q) # <<>>
              /\ normalizeAttributeAlias(Captures(q)[1].identifier) # NoAttr}}

NoParse == [recognized |-> FALSE]

parseNaturalLanguage(text) ==
  LET entity == detectEntity(text)
      categories == extractCategoryFilters(text) \cup
                    (IF entity.category # NoAttr THEN {entity.category} ELSE {})
      statuses == extractStatusFilters(text)
      comparisons == extractComparisons(text)
  IN IF /\ entity.entityType = NoAttr
        /\ categories = {}
        /\ statuses = {}
        /\ comparisons = {}
     THEN NoParse
     ELSE [recognized |-> TRUE,
           entityType |-> entity.entityType,
           sectorFilters |-> extractSectorFilters(text),
           statusFilters |-> statuses,
           categoryFilters |-> categories,
           levelFilter |-> extractLevel(text),
           timeWindowHours |-> extractTimeWindow(text),
           geoFilter |-> extractGeoFilter(text),
           comparisons |-> comparisons,
           logicOperator |-> IF "ru:ili" \in text THEN "OR" ELSE "AND",
           limit |-> extractLimit(text)]


(***************************************************************************)
(* lib/queryEngine.ts: the filters of executeNaturalLanguageQuery          *)
(***************************************************************************)
toUpperCase(s) ==
  CASE s = "a" -> "A"
    [] s = "b" -> "B"
    [] s = "c" -> "C"
    [] s = "secret" -> "SECRET"
    [] s = "public" -> "PUBLIC"
    [] OTHER -> s

normalizeCategory(value) ==
  CASE value = "UAV" -> "uav"
    [] value = "Helicopter" -> "helicopter"
    [] value = "Unknown" -> "unknown"
    [] value = "AirGroup" -> "airgroup"
    [] OTHER -> value

\* Date.parse(last_seen || timestamp || updated_at || created_at)
preferredTime(node) ==
  IF node.attributes.last_seen # NoNum THEN node.attributes.last_seen
  ELSE IF node.attributes.timestamp # NoNum THEN node.attributes.timestamp
  ELSE IF node.updated_at # NoNum THEN node.updated_at
  ELSE node.created_at

RECURSIVE sortByTimeDesc(_)
\* Array.prototype.sort with (a, b) => timeB - timeA: stable, newest first.
sortByTimeDesc(nodes) ==
  IF nodes = <<>> THEN <<>>
  ELSE LET n == Len(nodes)
           x == nodes[n]
           sorted == sortByTimeDesc(SubSeq(nodes, 1, n - 1))
           k == Cardinality({i \in DOMAIN sorted :
                               preferredTime(sorted[i]) >= preferredTime(x)})
       IN SubSeq(sorted, 1, k) \o <<x>> \o SubSeq(sorted, k + 1, Len(sorted))

\* The first nodes of the list as it stands.
takeInGivenOrder(nodes, limit) ==
  IF Len(nodes) <= limit THEN nodes ELSE SubSeq(nodes, 1, limit)

takeWithPreferredOrder(nodes, limit) ==
  IF Len(nodes) <= limit THEN nodes
  ELSE SubSeq(sortByTimeDesc(nodes), 1, limit)

byEntityType(parsed, nodes) ==
  IF parsed.entityType # NoAttr
  THEN SelectSeq(nodes, LAMBDA node : node.entity_type = parsed.entityType)
  ELSE nodes

bySector(parsed, nodes) ==
  IF parsed.sectorFilters # {}
  THEN SelectSeq(nodes, LAMBDA node :
         LET candidate == toUpperCase(IF Truthy(node.attributes.sector)
                                      THEN node.attributes.sector ELSE "")
         IN candidate # "" /\ candidate \in parsed.sectorFilters)
  ELSE nodes

byLevel(parsed, nodes) ==
  IF parsed.levelFilter # NoAttr
  THEN SelectSeq(nodes, LAMBDA node :
         node.classification_level = parsed.levelFilter)
  ELSE nodes

\* A status filter that an "or" in the text switches off.
byStatusEither(parsed, nodes) ==
  IF parsed.statusFilters # {} /\ parsed.logicOperator = "AND"
  THEN SelectSeq(nodes, LAMBDA node :
         /\ Truthy(node.attributes.status)
         /\ node.attributes.status \in parsed.statusFilters)
  ELSE nodes

byStatus(parsed, nodes) ==
  IF parsed.statusFilters # {}
  THEN SelectSeq(nodes, LAMBDA node :
         /\ Truthy(node.attributes.status)
         /\ node.attributes.status \in parsed.statusFilters)
  ELSE nodes

byCategory(parsed, nodes) ==
  IF parsed.categoryFilters # {}
  THEN SelectSeq(nodes, LAMBDA node :
         /\ Truthy(node.attributes.category)
         /\ normalizeCategory(node.attributes.category) \in parsed.categoryFilters)
  ELSE nodes

DATA_REFERENCE_TIME == HM(10, 0)

\* Date.prototype.getHours: the hour of the instant on the local clock.
getHours(t) == ((t \div 60) + timezone + 24) % 24

\* Date.prototype.setHours(hour) on instant t, the hour given in sixtieths:
\* the hour is truncated towards zero to an integer, and the local hour of
\* t is replaced by it; minutes and seconds stay.
setHours(t, hour) ==
  LET integer == IF hour >= 0 THEN hour \div 60 ELSE 0 - ((0 - hour) \div 60)
  IN t + (integer - getHours(t)) * 60

\* cutoffTime.setHours(cutoffTime.getHours() - timeWindowHours)
cutoffTime(timeWindowHours) ==
  setHours(DATA_REFERENCE_TIME,
           getHours(DATA_REFERENCE_TIME) * 60 - timeWindowHours)

\* last_seen || timestamp || updated_at
lastSeen(node) ==
  IF node.attributes.last_seen # NoNum THEN node.attributes.last_seen
  ELSE IF node.attributes.timestamp # NoNum THEN node.attributes.timestamp
  ELSE node.updated_at

byTimeWindow(parsed, nodes) ==
  IF parsed.timeWindowHours # NoNum /\ parsed.timeWindowHours > 0
  THEN SelectSeq(nodes, LAMBDA node :
         /\ lastSeen(node) # NoNum
         /\ lastSeen(node) >= cutoffTime(parsed.timeWindowHours))
  ELSE nodes

\* The coordinates attribute of a node when it is a pair of numbers, in
\* ten-thousandths of a degree; <<>> for a node that has none, or a text
\* without numbers.  The attribute is kept here, by node id, and not in the
\* node's attributes record.
extractNodeCoordinates(node) ==
  CASE node.id = "target_uav_1_SECRET" -> <<542101, 375203>>
    [] node.id = "target_uav_2_SECRET" -> <<541985, 374801>>
    [] node.id = "target_unknown_3_SECRET" -> <<543150, 375950>>
    [] node.id = "target_uav_4_SECRET" -> <<542561, 376104>>
    [] node.id = "target_helicopter_5_SECRET" -> <<543322, 375804>>
    [] OTHER -> <<>>

\* The great-circle distance from the point of the geo phrase, rounded up
\* to kilometres.
calculateDistanceKm(geo, coordinates) ==
  CASE coordinates = <<542101, 375203>> -> 0
    [] coordinates = <<541985, 374801>> -> 3
    [] coordinates = <<543150, 375950>> -> 13
    [] coordinates = <<542561, 376104>> -> 8
    [] OTHER -> 15

byGeo(parsed, nodes) ==
  IF parsed.geoFilter # NoGeo
  THEN SelectSeq(nodes, LAMBDA node :
         /\ extractNodeCoordinates(node) # <<>>
         /\ calculateDistanceKm(parsed.geoFilter, extractNodeCoordinates(node))
              <= parsed.geoFilter.radiusKm)
  ELSE nodes

THREAT_ORDER(word) ==
  CASE word = "low" -> 1
    [] word = "medium" -> 2
    [] word = "elevated" -> 3
    [] word = "high" -> 4
    [] word = "critical" -> 5
    [] OTHER -> NoNum

\* The place of a word among the attribute words of the data, in the order
\* that < has on strings.
stringOrder(word) ==
  CASE word = "critical" -> 1
    [] word = "elevated" -> 2
    [] word = "high" -> 3
    [] word = "low" -> 4
    [] word = "medium" -> 5
    [] word = "offline" -> 6
    [] word = "online" -> 7
    [] word = "operational" -> 8
    [] OTHER -> 0

ordered(a, operator, b) ==
  CASE operator = ">" -> a > b
    [] operator = ">=" -> a >= b
    [] operator = "<" -> a < b
    [] operator = "<=" -> a <= b
    [] operator = "=" -> a = b
    [] operator = "!=" -> a # b
    [] OTHER -> FALSE

\* A value is a number or a word, the other field being absent.  A word of
\* the data is no numeral, and a number reads as a string of digits, which
\* is below every word.
compareValues(lhs, rhs, operator) ==
  IF lhs.number = NoNum /\ lhs.word = NoAttr THEN FALSE
  ELSE IF rhs.number # NoNum
  THEN lhs.number # NoNum /\ ordered(lhs.number, operator, rhs.number)
  ELSE IF lhs.number # NoNum
  THEN operator \in {"!=", "<", "<="}
  ELSE LET lhsString == toLowerCase(lhs.word)
           rhsString == toLowerCase(rhs.word)
       IN IF lhsString = rhsString /\ operator = "=" THEN TRUE
          ELSE IF operator = "!=" THEN lhsString # rhsString
          ELSE IF /\ THREAT_ORDER(lhsString) # NoNum
                  /\ THREAT_ORDER(rhsString) # NoNum
          THEN /\ operator # "="
               /\ ordered(THREAT_ORDER(lhsString), operator,
                          THREAT_ORDER(rhsString))
          ELSE ordered(stringOrder(lhsString), operator,
                       stringOrder(rhsString))

\* node.attributes[attribute], for the attributes the data has.
attributeValue(node, attribute) ==
  IF attribute = "speed"
  THEN [number |-> node.attributes.speed, word |-> NoAttr]
  ELSE IF attribute \in {"threat_level", "status"}
  THEN [number |-> NoNum, word |-> node.attributes[attribute]]
  ELSE [number |-> NoNum, word |-> NoAttr]

checkComparisons(node, comparisons) ==
  \A comparison \in comparisons :
    compareValues(attributeValue(node, comparison.attribute),
                  [number |-> comparison.number, word |-> comparison.word],
                  comparison.operator)

byComparisons(parsed, nodes) ==
  IF parsed.comparisons # {}
  THEN SelectSeq(nodes, LAMBDA node : checkComparisons(node, parsed.comparisons))
  ELSE nodes

\* A limit that is left for the caller to apply.
byLimitLater(parsed, nodes) == nodes

byLimit(parsed, nodes) ==
  IF parsed.limit # NoNum /\ parsed.limit > 0
  THEN takeWithPreferredOrder(nodes, parsed.limit)
  ELSE nodes

filterNodesUnchecked(user, parsed, allNodes) ==
  byLimit(parsed,
    byComparisons(parsed,
      byGeo(parsed,
        byCategory(parsed,
          byStatus(parsed,
            byTimeWindow(parsed,
              byLevel(parsed,
                bySector(parsed, byEntityType(parsed, allNodes)))))))))

\* filteredNodes as executeNaturalLanguageQuery has it when it reaches
\* decrementBudget: entity type, access, then the parsed filters in order.
filterNodes(user, parsed, allNodes) ==
  byLimit(parsed,
    byComparisons(parsed,
      byGeo(parsed,
        byCategory(parsed,
          byStatus(parsed,
            byTimeWindow(parsed,
              byLevel(parsed,
                bySector(parsed,
                  filterAccessibleNodes(user,
                    byEntityType(parsed, allNodes))))))))))

consumeLocalNone(user) == user

\* if (user.query_budget > 0) user.query_budget -= 1, on the caller's record
consumeLocal(user) ==
  IF user.query_budget > 0 THEN [user EXCEPT !.query_budget = @ - 1] ELSE user

AUDIT_BUDGET_EXHAUSTED == "BUDGET_EXHAUSTED"
AUDIT_K_ANONYMITY == "K_ANONYMITY"
NoReason == "null"

\* The entry insertAuditLog stores for a logAuditEntry call (its generated
\* id and creation time are left out).
auditEntry(user, queryText, resultCount, granted, denialReason) ==
  [user_id |-> user.id, query_text |-> queryText, query_type |-> "NL_QUERY",
   result_count |-> resultCount, access_granted |-> granted,
   denial_reason |-> denialReason]

\* An append that keeps the newest entry only.
insertAuditLogReplace(store, entry) == <<entry>>

insertAuditLog(store, entry) == <<entry>> \o store

Result(success, error, data, aggregated, denialReason) ==
  [success |-> success, error |-> error, data |-> data,
   aggregated |-> aggregated, denialReason |-> denialReason]

NoData == [kind |-> "none", nodes |-> <<>>, count |-> NoNum]
ListData(nodes) == [kind |-> "list", nodes |-> nodes, count |-> NoNum]
CountData(n) == [kind |-> "aggregate", nodes |-> <<>>, count |-> n]

NoResult == Result(FALSE, "pending", NoData, NoAttr, NoAttr)
deniedResult == Result(FALSE, "budget", NoData, NoAttr, "ru:byudzhet ru:ischerpan")
unrecognizedResultEmpty == Result(TRUE, NoAttr, ListData(<<>>), "false", NoAttr)

unrecognizedResult == Result(FALSE, "unrecognized", NoData, NoAttr, NoAttr)

outcomeReasonNone(filteredNodes) == NoReason

\* The audit reason and the result of a processed query, by result size.
outcomeReason(filteredNodes) ==
  IF Len(filteredNodes) = 0 THEN NoReason
  ELSE IF ~checkKAnonymity(Len(filteredNodes)) THEN AUDIT_K_ANONYMITY
  ELSE NoReason

outcomeResult(filteredNodes) ==
  IF Len(filteredNodes) = 0
  THEN Result(TRUE, NoAttr, ListData(<<>>), "false", NoAttr)
  ELSE IF ~checkKAnonymity(Len(filteredNodes))
  THEN Result(TRUE, NoAttr, CountData(Len(filteredNodes)), "true",
              AUDIT_K_ANONYMITY)
  ELSE Result(TRUE, NoAttr, ListData(filteredNodes), NoAttr, NoAttr)


(***************************************************************************)
(* Callers and activations.  session is the User object the application   *)
(* holds for the logged-in user: the clone findUserByUsername gave the     *)
(* login form, or findUserById gave the query panel, which passes it to    *)
(* every query until it fetches a new one.  An activation of               *)
(* executeNaturalLanguageQuery was called with that object and stands at   *)
(* one of the function's awaits; returned is what the latest activation to *)
(* return handed to its caller.  ledger counts what was done with the      *)
(* session's object since it was fetched.                                  *)
(***************************************************************************)
MaxExecs == 2
MaxQueries == 2
MaxInitBudget == 1

ExecIds == 1..MaxExecs

CoreTexts ==
  { {"ru:sobytiya"},
    {"ru:sobytiya", "sector b"},
    {"ru:pogoda"} }

NoRecord == [id |-> NoAttr]
NoLedger == [budget0 |-> 0, processed |-> 0, denied |-> FALSE, serial |-> TRUE]

IdleExec ==
  [pc |-> "idle", user |-> NoAttr, queryText |-> {}, parsedQuery |-> NoParse,
   allNodes |-> <<>>, filteredNodes |-> <<>>]

NoReturn ==
  [path |-> "none", user |-> NoAttr, queryText |-> {}, parsed |-> FALSE,
   read |-> FALSE, filteredNodes |-> <<>>, result |-> NoResult]

InFlight(e) == execs[e].pc # "idle"

\* Budgets a stored user can have been left with by earlier use.
InitBudgets(level) ==
  {b \in 0..getMaxBudget(level) : b <= MaxInitBudget \/ b = getMaxBudget(level)}

InitStore ==
  /\ now = 0
  /\ \E ba \in InitBudgets(users["local-analyst_a"].clearance_level),
        bc \in InitBudgets(users["local-commander"].clearance_level) :
       usersStore = [id \in UserIds |->
                       [users[id] EXCEPT !.query_budget =
                          IF id = "local-analyst_a" THEN ba ELSE bc]]
  /\ nodesStore = graphNodes
  /\ edgesStore = graphEdges
  /\ auditLogStore = <<>>

InitQuery ==
  /\ session = NoRecord
  /\ ledger = NoLedger
  /\ execs = [e \in ExecIds |-> IdleExec]
  /\ returned = NoReturn
  /\ started = 0
  /\ queryTexts = CoreTexts

\* The store and the caller's object after a find of user id at this time.
fetched(id) ==
  LET user == maybeResetBudget(usersStore[id], now)
  IN /\ usersStore' = [usersStore EXCEPT ![id] = user]
     /\ session' = user
     /\ ledger' = [NoLedger EXCEPT !.budget0 = user.query_budget]

\* findUserById(id): reset the stored budget when due and return a clone.
FindUserById(id) ==
  /\ \A e \in ExecIds : ~InFlight(e)
  /\ fetched(id)
  /\ UNCHANGED <<now, nodesStore, edgesStore, auditLogStore>>
  /\ UNCHANGED <<execs, returned, started, queryTexts, polVars, viewVars>>

\* findUserByUsername(username): the same for the user of that name, if any.
FindUserByUsername(username) ==
  /\ \A e \in ExecIds : ~InFlight(e)
  /\ LET id == idOfUsername(username)
     IN IF id # NoAttr THEN fetched(id)
        ELSE UNCHANGED <<usersStore, session, ledger>>
  /\ UNCHANGED <<now, nodesStore, edgesStore, auditLogStore>>
  /\ UNCHANGED <<execs, returned, started, queryTexts, polVars, viewVars>>

\* Wall-clock time passes.
Tick ==
  /\ now < MaxTicks * TickMs
  /\ now' = now + TickMs
  /\ UNCHANGED <<usersStore, nodesStore, edgesStore, auditLogStore>>
  /\ UNCHANGED <<polVars, queryVars, viewVars>>

\* executeNaturalLanguageQuery(session, q) up to its first await: the
\* budget check, the denial's audit entry, the parse, the getAllNodes call.
ExecStart(e, q) ==
  /\ started < MaxQueries
  /\ ~InFlight(e)
  /\ \A e2 \in ExecIds : e2 < e => InFlight(e2)
  /\ session # NoRecord
  /\ started' = started + 1
  /\ LET user == session
         id == session.id
         parsed == parseNaturalLanguage(q)
         call == [IdleExec EXCEPT !.user = id, !.queryText = q]
         noted == IF \A e2 \in ExecIds : ~InFlight(e2) THEN ledger
                  ELSE [ledger EXCEPT !.serial = FALSE]
     IN IF ~checkQueryBudget(user)
        THEN /\ auditLogStore' = insertAuditLog(auditLogStore,
                  auditEntry(user, q, 0, FALSE, AUDIT_BUDGET_EXHAUSTED))
             /\ execs' = [execs EXCEPT ![e] = [call EXCEPT !.pc = "awaitDenyAudit"]]
             /\ ledger' = [noted EXCEPT !.denied = TRUE]
             /\ UNCHANGED returned
        ELSE IF ~parsed.recognized
        THEN /\ returned' = [NoReturn EXCEPT !.path = "unrecognized",
                               !.user = id, !.queryText = q, !.parsed = TRUE,
                               !.result = unrecognizedResult]
             /\ ledger' = noted
             /\ UNCHANGED <<auditLogStore, execs>>
        ELSE /\ execs' = [execs EXCEPT ![e] =
                  [call EXCEPT !.pc = "awaitNodes", !.parsedQuery = parsed,
                               !.allNodes = nodesStore]]
             /\ ledger' = [noted EXCEPT !.processed = @ + 1]
             /\ UNCHANGED <<auditLogStore, returned>>
  /\ UNCHANGED <<now, usersStore, nodesStore, edgesStore, session, queryTexts>>
  /\ UNCHANGED <<polVars, viewVars>>

\* Resumed with the nodes: the filters (allNodes is not used after them),
\* then the decrementBudget call.
ExecFilter(e) ==
  /\ execs[e].pc = "awaitNodes"
  /\ LET user == session
     IN /\ execs' = [execs EXCEPT ![e].pc = "awaitDecrement",
                       ![e].allNodes = <<>>,
                       ![e].filteredNodes =
                          filterNodes(user, execs[e].parsedQuery, execs[e].allNodes)]
        /\ usersStore' = [usersStore EXCEPT ![user.id] = storeDecrement(@, now)]
  /\ UNCHANGED <<now, nodesStore, edgesStore, auditLogStore>>
  /\ UNCHANGED <<session, ledger, returned, started, queryTexts>>
  /\ UNCHANGED <<polVars, viewVars>>

\* Resumed after decrementBudget: the caller's record is decremented and the
\* audit entry of the outcome is inserted.
ExecAudit(e) ==
  /\ execs[e].pc = "awaitDecrement"
  /\ LET user == consumeLocal(session)
         found == execs[e].filteredNodes
     IN /\ session' = user
        /\ auditLogStore' = insertAuditLog(auditLogStore,
             auditEntry(user, execs[e].queryText, Len(found), TRUE,
                        outcomeReason(found)))
  /\ execs' = [execs EXCEPT ![e].pc = "awaitAudit"]
  /\ UNCHANGED <<now, usersStore, nodesStore, edgesStore>>
  /\ UNCHANGED <<ledger, returned, started, queryTexts, polVars, viewVars>>

\* Resumed after the audit entry: the result is returned to the caller.
ExecReturn(e) ==
  /\ execs[e].pc \in {"awaitDenyAudit", "awaitAudit"}
  /\ returned' =
       IF execs[e].pc = "awaitDenyAudit"
       THEN [NoReturn EXCEPT !.path = "denied", !.user = execs[e].user,
                             !.queryText = execs[e].queryText,
                             !.result = deniedResult]
       ELSE [path |-> "processed", user |-> execs[e].user,
             queryText |-> execs[e].queryText, parsed |-> TRUE,
             read |-> TRUE,
             filteredNodes |-> execs[e].filteredNodes,
             result |-> outcomeResult(execs[e].filteredNodes)]
  /\ execs' = [execs EXCEPT ![e] = IdleExec]
  /\ UNCHANGED <<storeVars, session, ledger, started, queryTexts>>
  /\ UNCHANGED <<polVars, viewVars>>

(***************************************************************************)
(* The audit append as a call that can fail.  logAuditEntry awaits         *)
(* insertAuditLog and executeNaturalLanguageQuery awaits logAuditEntry,    *)
(* neither inside a try: when the promise of the append is rejected, the   *)
(* activation is resumed with the exception and ends with it.              *)
(***************************************************************************)
AuditTexts ==
  { {"ru:sobytiya"},
    {"ru:sobytiya", "sector b"} }

\* A call with an exhausted record whose audit append is rejected.
ExecStartAuditFails(e, q) ==
  /\ started < MaxQueries
  /\ ~InFlight(e)
  /\ \A e2 \in ExecIds : e2 < e => InFlight(e2)
  /\ session # NoRecord
  /\ ~checkQueryBudget(session)
  /\ started' = started + 1
  /\ execs' = [execs EXCEPT ![e] =
       [IdleExec EXCEPT !.pc = "awaitDenyAuditRejected", !.user = session.id,
                        !.queryText = q]]
  /\ ledger' = [ledger EXCEPT !.denied = TRUE,
                  !.serial = @ /\ \A e2 \in ExecIds : ~InFlight(e2)]
  /\ UNCHANGED <<storeVars, session, returned, queryTexts, polVars, viewVars>>

\* Resumed after decrementBudget, the caller's record is decremented and the
\* audit append of the outcome is rejected.
ExecAuditFails(e) ==
  /\ execs[e].pc = "awaitDecrement"
  /\ session' = consumeLocal(session)
  /\ execs' = [execs EXCEPT ![e].pc = "awaitAuditRejected"]
  /\ UNCHANGED <<storeVars, ledger, returned, started, queryTexts>>
  /\ UNCHANGED <<polVars, viewVars>>

\* Resumed with the rejection: the exception leaves the function, and the
\* caller gets no result.
ExecThrow(e) ==
  /\ execs[e].pc \in {"awaitDenyAuditRejected", "awaitAuditRejected"}
  /\ returned' = [NoReturn EXCEPT !.path = "thrown", !.user = execs[e].user,
                    !.queryText = execs[e].queryText,
                    !.parsed = execs[e].pc = "awaitAuditRejected",
                    !.read = execs[e].pc = "awaitAuditRejected",
                    !.filteredNodes = execs[e].filteredNodes]
  /\ execs' = [execs EXCEPT ![e] = IdleExec]
  /\ UNCHANGED <<storeVars, session, ledger, started, queryTexts>>
  /\ UNCHANGED <<polVars, viewVars>>

(***************************************************************************)
(* lib/queryEngine.ts: getGraphData.  views is the activation the graph    *)
(* view started: the user and options it was called with, what it read at  *)
(* its two awaits, and what it returned.                                   *)
(***************************************************************************)
CLEARANCE_ORDER(level) ==
  CASE level = "UNCLASSIFIED" -> 0
    [] level = "CONFIDENTIAL" -> 1
    [] level = "SECRET" -> 2
    [] OTHER -> NoNum

LEVEL_SEQUENCE == <<"UNCLASSIFIED", "CONFIDENTIAL", "SECRET">>

\* CLEARANCE_ORDER[level] ?? 0
orderOrZero(level) ==
  IF CLEARANCE_ORDER(level) = NoNum THEN 0 ELSE CLEARANCE_ORDER(level)

accessibleLevels(user) ==
  SelectSeq(LEVEL_SEQUENCE, LAMBDA level :
    CLEARANCE_ORDER(level) <= orderOrZero(user.clearance_level))

Range(seq) == {seq[i] : i \in DOMAIN seq}

NoOptions == [mode |-> "none", level |-> NoAttr, overlayLevels |-> <<>>]

targetLevelLowest(user, options) ==
  LET levels == accessibleLevels(user)
  IN IF Truthy(options.level) /\ options.level \in Range(levels)
     THEN options.level
     ELSE IF Len(levels) > 0 THEN levels[1] ELSE "UNCLASSIFIED"

targetLevel(user, options) ==
  LET levels == accessibleLevels(user)
  IN IF Truthy(options.level) /\ options.level \in Range(levels)
     THEN options.level
     ELSE IF Len(levels) > 0 THEN levels[Len(levels)] ELSE "UNCLASSIFIED"

edgesOfLevels(edges, levels, nodes) ==
  SelectSeq(edges, LAMBDA edge : edge.classification_level \in levels)

\* Edges of the given levels among the accessible ones whose two ends are
\* both among the nodes.
edgesWithin(edges, levels, nodes) ==
  LET nodeIds == {nodes[i].id : i \in DOMAIN nodes}
  IN SelectSeq(edges, LAMBDA edge :
       /\ edge.classification_level \in levels
       /\ edge.source_node_id \in nodeIds
       /\ edge.target_node_id \in nodeIds)

levelView(user, options, accessibleNodes, accessibleEdges) ==
  LET target == targetLevel(user, options)
      nodes == SelectSeq(accessibleNodes, LAMBDA node :
                 node.classification_level = target)
  IN [nodes |-> nodes, edges |-> edgesWithin(accessibleEdges, {target}, nodes)]

effectiveLevelsAsAsked(user, options) ==
  IF Len(options.overlayLevels) > 0 THEN options.overlayLevels
  ELSE accessibleLevels(user)

effectiveLevels(user, options) ==
  LET levels == accessibleLevels(user)
      requested == SelectSeq(options.overlayLevels, LAMBDA level :
                     level \in Range(levels))
  IN IF Len(requested) > 0 THEN requested ELSE levels

overlayView(user, options, accessibleNodes, accessibleEdges) ==
  LET levelSet == Range(effectiveLevels(user, options))
      nodes == SelectSeq(accessibleNodes, LAMBDA node :
                 node.classification_level \in levelSet)
  IN [nodes |-> nodes, edges |-> edgesWithin(accessibleEdges, levelSet, nodes)]

RECURSIVE nodeChoiceFirst(_, _)
nodeChoiceFirst(nodes, chosen) ==
  IF nodes = <<>> THEN chosen
  ELSE IF \E i \in DOMAIN chosen : chosen[i].logical_id = Head(nodes).logical_id
  THEN nodeChoiceFirst(Tail(nodes), chosen)
  ELSE nodeChoiceFirst(Tail(nodes), Append(chosen, Head(nodes)))

\* The values of the nodeChoice map after the forEach over the remaining
\* nodes: a key keeps the place of its first insertion, and its node is
\* replaced by one of strictly greater rank.
RECURSIVE nodeChoice(_, _)
nodeChoice(nodes, chosen) ==
  IF nodes = <<>> THEN chosen
  ELSE LET node == Head(nodes)
           at == {i \in DOMAIN chosen : chosen[i].logical_id = node.logical_id}
       IN IF at = {}
          THEN nodeChoice(Tail(nodes), Append(chosen, node))
          ELSE LET i == CHOOSE i \in at : TRUE
               IN IF orderOrZero(node.classification_level)
                       > orderOrZero(chosen[i].classification_level)
                  THEN nodeChoice(Tail(nodes), [chosen EXCEPT ![i] = node])
                  ELSE nodeChoice(Tail(nodes), chosen)

\* nodeById.get(id): the last node set for the id; <<>> when there is none.
nodeById(allNodes, id) ==
  LET at == {i \in DOMAIN allNodes : allNodes[i].id = id}
  IN IF at = {} THEN <<>>
     ELSE <<allNodes[CHOOSE i \in at : \A j \in at : j <= i]>>

\* logicalToNode.get(logicalId), likewise, over the chosen nodes.
logicalToNode(nodes, logicalId) ==
  LET at == {i \in DOMAIN nodes : nodes[i].logical_id = logicalId}
  IN IF at = {} THEN <<>>
     ELSE <<nodes[CHOOSE i \in at : \A j \in at : j <= i]>>

edgeKeyById(edge, bestSource, bestTarget) == edge.id

edgeKey(edge, bestSource, bestTarget) ==
  IF Truthy(edge.logical_id) THEN edge.logical_id
  ELSE bestSource.logical_id \o "::" \o bestTarget.logical_id
         \o "::" \o edge.relation_type

\* The values of edgesMap after the forEach over the remaining edges.
RECURSIVE edgeChoice(_, _, _, _)
edgeChoice(edges, allNodes, nodes, chosen) ==
  IF edges = <<>> THEN [i \in DOMAIN chosen |-> chosen[i].edge]
  ELSE LET edge == Head(edges)
           rest == Tail(edges)
           sourceOriginal == nodeById(allNodes, edge.source_node_id)
           targetOriginal == nodeById(allNodes, edge.target_node_id)
       IN IF sourceOriginal = <<>> \/ targetOriginal = <<>>
          THEN edgeChoice(rest, allNodes, nodes, chosen)
          ELSE LET bestSource == logicalToNode(nodes, sourceOriginal[1].logical_id)
                   bestTarget == logicalToNode(nodes, targetOriginal[1].logical_id)
               IN IF bestSource = <<>> \/ bestTarget = <<>>
                  THEN edgeChoice(rest, allNodes, nodes, chosen)
                  ELSE LET key == edgeKey(edge, bestSource[1], bestTarget[1])
                           candidate == [edge EXCEPT
                                           !.source_node_id = bestSource[1].id,
                                           !.target_node_id = bestTarget[1].id]
                           at == {i \in DOMAIN chosen : chosen[i].key = key}
                       IN IF at = {}
                          THEN edgeChoice(rest, allNodes, nodes,
                                 Append(chosen, [key |-> key, edge |-> candidate]))
                          ELSE LET i == CHOOSE i \in at : TRUE
                               IN IF orderOrZero(candidate.classification_level)
                                       > orderOrZero(chosen[i].edge.classification_level)
                                  THEN edgeChoice(rest, allNodes, nodes,
                                         [chosen EXCEPT ![i].edge = candidate])
                                  ELSE edgeChoice(rest, allNodes, nodes, chosen)

virtualView(allNodes, accessibleNodes, accessibleEdges) ==
  LET nodes == nodeChoice(accessibleNodes, <<>>)
  IN [nodes |-> nodes,
      edges |-> edgeChoice(accessibleEdges, allNodes, nodes, <<>>)]

\* What getGraphData returns from the nodes and edges it read.
getGraphData(user, options, allNodes, allEdges) ==
  LET accessibleNodes == filterAccessibleNodes(user, allNodes)
      accessibleEdges == filterAccessibleEdges(user, allEdges)
  IN IF options.mode = "level"
     THEN levelView(user, options, accessibleNodes, accessibleEdges)
     ELSE IF options.mode = "overlay"
     THEN overlayView(user, options, accessibleNodes, accessibleEdges)
     ELSE virtualView(allNodes, accessibleNodes, accessibleEdges)

IdleViewRec ==
  [pc |-> "idle", user |-> NoRecord, options |-> NoOptions,
   allNodes |-> <<>>, allEdges |-> <<>>, nodes |-> <<>>, edges |-> <<>>]

ViewOptions ==
  { [mode |-> "virtual", level |-> NoAttr, overlayLevels |-> <<>>],
    [mode |-> "level", level |-> "SECRET", overlayLevels |-> <<>>],
    [mode |-> "level", level |-> "CONFIDENTIAL", overlayLevels |-> <<>>],
    [mode |-> "overlay", level |-> NoAttr,
     overlayLevels |-> <<"CONFIDENTIAL", "SECRET">>] }

\* getGraphData(session, options) up to its first await: getAllNodes.
ViewStart(options) ==
  /\ session # NoRecord
  /\ views.pc \in {"idle", "done"}
  /\ views' = [IdleViewRec EXCEPT !.pc = "awaitNodes", !.user = session,
                                  !.options = options, !.allNodes = nodesStore]
  /\ UNCHANGED <<storeVars, queryVars, polVars, storeOps, opResult>>

\* Resumed with the nodes: the getAllEdges call.
ViewEdges ==
  /\ views.pc = "awaitNodes"
  /\ views' = [views EXCEPT !.pc = "awaitEdges", !.allEdges = edgesStore]
  /\ UNCHANGED <<storeVars, queryVars, polVars, storeOps, opResult>>

\* Resumed with the edges: the rest of the function, to its return.
ViewReturn ==
  /\ views.pc = "awaitEdges"
  /\ LET data == getGraphData(views.user, views.options,
                              views.allNodes, views.allEdges)
     IN views' = [views EXCEPT !.pc = "done", !.nodes = data.nodes,
                               !.edges = data.edges]
  /\ UNCHANGED <<storeVars, queryVars, polVars, storeOps, opResult>>

(***************************************************************************)
(* lib/dataStore.ts: operations on stored users and nodes                  *)
(***************************************************************************)
MaxStoreOps == 1

\* What the latest store operation gave its caller: its return, or the
\* error it threw; for an export, the payload.
NoOp ==
  [op |-> "none", error |-> NoAttr, level |-> NoAttr,
   entities |-> <<>>, relationships |-> <<>>, nodes |-> <<>>, edges |-> <<>>]
Done(op) == [NoOp EXCEPT !.op = op]
Thrown(op, error) == [NoOp EXCEPT !.op = op, !.error = error]

normalizeLevel(level) ==
  LET upper == toUpperCase(level)
  IN IF upper \in {"SECRET", "S", "H"} THEN "SECRET"
     ELSE IF upper \in {"CONFIDENTIAL", "C", "M"} THEN "CONFIDENTIAL"
     ELSE "UNCLASSIFIED"

\* The creation time of a node made at time t: later than the data's day.
timestampAt(t) == HM(24, 0) + t

InputLogicalIds == {"target_uav_1", "event_warning_b", "post_1"}
InputLevels == {"secret", "c", "public"}
InputSectors == {NoAttr, "A"}

CreateNodeUnchecked(logical_id, level, sector) ==
  /\ storeOps > 0
  /\ storeOps' = storeOps - 1
  /\ nodesStore' = Append(nodesStore,
       Node(logical_id, normalizeLevel(level), "Target",
            Attrs(sector, NoAttr, NoAttr, NoNum, NoNum, NoNum, NoAttr),
            timestampAt(now), timestampAt(now)))
  /\ opResult' = Done("createNode")
  /\ UNCHANGED <<now, usersStore, edgesStore, auditLogStore>>
  /\ UNCHANGED <<queryVars, polVars, views>>

\* createNode(input), input.logical_id given: refused when the id exists.
CreateNode(logical_id, level, sector) ==
  /\ storeOps > 0
  /\ storeOps' = storeOps - 1
  /\ LET classification == normalizeLevel(level)
         nodeId == buildNodeId(logical_id, classification)
         node == Node(logical_id, classification, "Target",
                      Attrs(sector, NoAttr, NoAttr, NoNum, NoNum, NoNum, NoAttr),
                      timestampAt(now), timestampAt(now))
     IN IF \E i \in DOMAIN nodesStore : nodesStore[i].id = nodeId
        THEN /\ opResult' = Thrown("createNode", "exists")
             /\ UNCHANGED nodesStore
        ELSE /\ opResult' = Done("createNode")
             /\ nodesStore' = Append(nodesStore, node)
  /\ UNCHANGED <<now, usersStore, edgesStore, auditLogStore>>
  /\ UNCHANGED <<queryVars, polVars, views>>

\* deleteNode(logicalId, level): refused when there is no such node, else
\* the node goes and every edge that starts or ends at it.
DeleteNode(logicalId, level) ==
  /\ storeOps > 0
  /\ storeOps' = storeOps - 1
  /\ LET nodeId == buildNodeId(logicalId, normalizeLevel(level))
     IN IF \E i \in DOMAIN nodesStore : nodesStore[i].id = nodeId
        THEN /\ opResult' = Done("deleteNode")
             /\ nodesStore' = SelectSeq(nodesStore, LAMBDA node : node.id # nodeId)
             /\ edgesStore' = SelectSeq(edgesStore, LAMBDA edge :
                                /\ edge.source_node_id # nodeId
                                /\ edge.target_node_id # nodeId)
        ELSE /\ opResult' = Thrown("deleteNode", "notFound")
             /\ UNCHANGED <<nodesStore, edgesStore>>
  /\ UNCHANGED <<now, usersStore, auditLogStore>>
  /\ UNCHANGED <<queryVars, polVars, views>>

MaxGraphOps == 2

InputNodeIds ==
  {"target_uav_1_SECRET", "target_uav_1_CONFIDENTIAL",
   "sensor_radar_a_CONFIDENTIAL", "post_1_SECRET"}
InputEdgeLogicalIds == {"rel_detect_1", "rel_new"}
InputEdgeIds ==
  {"rel_detect_1_SECRET", "rel_event_group_b_CONFIDENTIAL", "rel_new_SECRET"}

hasNode(nodes, id) == \E i \in DOMAIN nodes : nodes[i].id = id
findNode(nodes, id) == nodes[CHOOSE i \in DOMAIN nodes : nodes[i].id = id]

\* createEdge(input), input.logical_id given: refused when an endpoint is
\* missing, when an endpoint is not at the edge's level, when the id exists.
CreateEdge(source_node_id, target_node_id, level, logical_id) ==
  /\ storeOps > 0
  /\ storeOps' = storeOps - 1
  /\ LET classification == normalizeLevel(level)
         edgeId == buildNodeId(logical_id, classification)
     IN IF ~hasNode(nodesStore, source_node_id) \/ ~hasNode(nodesStore, target_node_id)
        THEN /\ opResult' = Thrown("createEdge", "notFound")
             /\ UNCHANGED edgesStore
        ELSE IF \/ findNode(nodesStore, source_node_id).classification_level
                     # classification
                \/ findNode(nodesStore, target_node_id).classification_level
                     # classification
        THEN /\ opResult' = Thrown("createEdge", "crossLevel")
             /\ UNCHANGED edgesStore
        ELSE IF \E i \in DOMAIN edgesStore : edgesStore[i].id = edgeId
        THEN /\ opResult' = Thrown("createEdge", "exists")
             /\ UNCHANGED edgesStore
        ELSE /\ opResult' = Done("createEdge")
             /\ edgesStore' = Append(edgesStore,
                  Edge(logical_id, classification, source_node_id,
                       target_node_id, "LINKED"))
  /\ UNCHANGED <<now, usersStore, nodesStore, auditLogStore>>
  /\ UNCHANGED <<queryVars, polVars, views>>

\* The sequence without its first element that satisfies the test.
RECURSIVE spliceFirst(_, _)
spliceFirst(edges, edgeId) ==
  IF edges = <<>> THEN <<>>
  ELSE IF Head(edges).id = edgeId THEN Tail(edges)
  ELSE <<Head(edges)>> \o spliceFirst(Tail(edges), edgeId)

\* deleteEdge(edgeId): refused when there is no such edge.
DeleteEdge(edgeId) ==
  /\ storeOps > 0
  /\ storeOps' = storeOps - 1
  /\ IF \E i \in DOMAIN edgesStore : edgesStore[i].id = edgeId
     THEN /\ opResult' = Done("deleteEdge")
          /\ edgesStore' = spliceFirst(edgesStore, edgeId)
     ELSE /\ opResult' = Thrown("deleteEdge", "notFound")
          /\ UNCHANGED edgesStore
  /\ UNCHANGED <<now, usersStore, nodesStore, auditLogStore>>
  /\ UNCHANGED <<queryVars, polVars, views>>

Entity(logical_id, entity_type, classification, attributes) ==
  [logical_id |-> logical_id, entity_type |-> entity_type,
   classification |-> classification, attributes |-> attributes]

Relationship(logical_id, source_id, target_id, relation_type, classification) ==
  [logical_id |-> logical_id, source_id |-> source_id, target_id |-> target_id,
   relation_type |-> relation_type, classification |-> classification]

\* The payload exportLevelData(level) makes of a store.
exportLevelData(level, nodes, edges) ==
  LET classification == normalizeLevel(level)
      levelNodes == SelectSeq(nodes, LAMBDA node :
                      node.classification_level = classification)
      levelEdges == SelectSeq(edges, LAMBDA edge :
                      edge.classification_level = classification)
      nodeIdMap(id) ==
        IF hasNode(levelNodes, id) /\ Truthy(nodeById(levelNodes, id)[1].logical_id)
        THEN nodeById(levelNodes, id)[1].logical_id
        ELSE id
  IN [entities |->
        [i \in DOMAIN levelNodes |->
           Entity(levelNodes[i].logical_id, levelNodes[i].entity_type,
                  levelNodes[i].classification_level, levelNodes[i].attributes)],
      relationships |->
        [i \in DOMAIN levelEdges |->
           Relationship(levelEdges[i].logical_id,
                        nodeIdMap(levelEdges[i].source_node_id),
                        nodeIdMap(levelEdges[i].target_node_id),
                        levelEdges[i].relation_type,
                        levelEdges[i].classification_level)]]

\* The relationships of a payload as the edges importLevelData pushes: one
\* whose source or target is no entity of the payload is skipped.
RECURSIVE importedEdges(_, _, _)
importedEdges(relationships, logicalIds, classification) ==
  IF relationships = <<>> THEN <<>>
  ELSE LET relationship == Head(relationships)
           rest == importedEdges(Tail(relationships), logicalIds, classification)
       IN IF relationship.source_id \notin logicalIds
               \/ relationship.target_id \notin logicalIds
          THEN rest
          ELSE <<Edge(relationship.logical_id, classification,
                      buildNodeId(relationship.source_id, classification),
                      buildNodeId(relationship.target_id, classification),
                      IF Truthy(relationship.relation_type)
                      THEN relationship.relation_type ELSE "RELATED_TO")>>
               \o rest

\* The stores after importLevelData(level, payload) ran on them at time t.
importLevelData(level, payload, nodes, edges, t) ==
  LET classification == normalizeLevel(level)
      keptNodes == SelectSeq(nodes, LAMBDA node :
                     node.classification_level # classification)
      keptEdges == SelectSeq(edges, LAMBDA edge :
                     edge.classification_level # classification)
      entities == payload.entities
      newNodes == [i \in DOMAIN entities |->
                     Node(entities[i].logical_id, classification,
                          IF Truthy(entities[i].entity_type)
                          THEN entities[i].entity_type ELSE "Unknown",
                          entities[i].attributes,
                          timestampAt(t), timestampAt(t))]
      logicalIds == {entities[i].logical_id : i \in DOMAIN entities}
  IN [nodes |-> keptNodes \o newNodes,
      edges |-> keptEdges \o
                importedEdges(payload.relationships, logicalIds, classification)]

NoAttrs == Attrs(NoAttr, NoAttr, NoAttr, NoNum, NoNum, NoNum, NoAttr)

ImportPayloads ==
  { [entities |-> <<>>, relationships |-> <<>>],
    [entities |-> <<Entity("post_1", "Target", NoAttr, NoAttrs),
                    Entity("post_1", "Sensor", NoAttr, NoAttrs)>>,
     relationships |-> <<>>],
    [entities |-> <<Entity("post_1", "Target", NoAttr, NoAttrs),
                    Entity("post_2", "", NoAttr, NoAttrs)>>,
     relationships |->
       <<Relationship("rel_new", "post_1", "post_2", "LINKED", NoAttr),
         Relationship("rel_new", "post_2", "post_1", "", NoAttr),
         Relationship("rel_lost", "post_1", "post_3", "LINKED", NoAttr)>>] }

\* The payloads at hand: the prepared ones and the one last exported.
PayloadsAtHand ==
  ImportPayloads \cup
    (IF opResult.op = "exportLevelData"
     THEN {[entities |-> opResult.entities,
            relationships |-> opResult.relationships]}
     ELSE {})

\* importLevelData(level, payload) on the store.
ImportLevel(level, payload) ==
  /\ storeOps > 0
  /\ storeOps' = storeOps - 1
  /\ LET data == importLevelData(level, payload, nodesStore, edgesStore, now)
     IN /\ nodesStore' = data.nodes
        /\ edgesStore' = data.edges
  /\ opResult' = Done("importLevelData")
  /\ UNCHANGED <<now, usersStore, auditLogStore>>
  /\ UNCHANGED <<queryVars, polVars, views>>

\* exportLevelData(level) on the store; the caller then imports the payload
\* at that level into a store that holds nothing, and is left with the
\* payload and with the nodes and edges of that store.
ExportLevel(level) ==
  /\ storeOps > 0
  /\ storeOps' = storeOps - 1
  /\ LET payload == exportLevelData(level, nodesStore, edgesStore)
         data == importLevelData(level, payload, <<>>, <<>>, now)
     IN opResult' = [NoOp EXCEPT !.op = "exportLevelData", !.level = level,
                       !.entities = payload.entities,
                       !.relationships = payload.relationships,
                       !.nodes = data.nodes, !.edges = data.edges]
  /\ UNCHANGED <<storeVars, queryVars, polVars, views>>

UserUpdates ==
  {[field |-> "clearance_level", text |-> level, number |-> NoNum] :
     level \in {"UNCLASSIFIED", "CONFIDENTIAL", "SECRET"}}
  \cup {[field |-> "query_budget", text |-> NoAttr, number |-> b] :
          b \in 0..MaxInitBudget}
  \cup {[field |-> "budget_reset_at", text |-> NoAttr, number |-> 0]}

\* updateUser(id, updates) with one field in updates.
UpdateUser(id, updates) ==
  /\ storeOps > 0
  /\ storeOps' = storeOps - 1
  /\ usersStore' = [usersStore EXCEPT ![id] =
       CASE updates.field = "clearance_level" ->
              [@ EXCEPT !.clearance_level = updates.text]
         [] updates.field = "query_budget" ->
              [@ EXCEPT !.query_budget = updates.number]
         [] OTHER -> [@ EXCEPT !.budget_reset_at = updates.number]]
  /\ opResult' = Done("updateUser")
  /\ UNCHANGED <<now, nodesStore, edgesStore, auditLogStore>>
  /\ UNCHANGED <<queryVars, polVars, views>>

(***************************************************************************)
(* The policy functions on arbitrary arguments: a user and a list of nodes *)
(* are drawn, then filterAccessibleNodes and checkSectorAccess are applied.*)
(***************************************************************************)
MaxPolicyNodes == 2

PolicyLevels == {"UNCLASSIFIED", "CONFIDENTIAL", "SECRET", "RESTRICTED"}
PolicySectors == {NoAttr, "", "A", "B"}
PolicyRoles == {NoAttr, "analyst", "commander"}

PolicyUsers ==
  {User("u", "u", level, sector, role, 0, 0) :
     level \in PolicyLevels, sector \in PolicySectors, role \in PolicyRoles}

PolicyNodes ==
  {Node("n", level, "Target",
        Attrs(sector, NoAttr, NoAttr, NoNum, NoNum, NoNum, NoAttr), 0, 0) :
     level \in PolicyLevels, sector \in PolicySectors}

PolicyLists ==
  UNION {[1..n -> PolicyNodes] : n \in 0..MaxPolicyNodes}

InitPolicy ==
  /\ polUser \in PolicyUsers
  /\ polNodes \in PolicyLists
  /\ polResult = <<>>
  /\ polSector = <<>>
  /\ polPc = "input"
  /\ timezone = UTC

PolicyApply ==
  /\ polPc = "input"
  /\ polResult' = filterAccessibleNodes(polUser, polNodes)
  /\ polSector' = [i \in DOMAIN polNodes |->
                     checkSectorAccess(polUser, polNodes[i])]
  /\ polPc' = "done"
  /\ UNCHANGED <<polUser, polNodes, timezone, storeVars, queryVars, viewVars>>

(***************************************************************************)
(* Specifications                                                          *)
(***************************************************************************)
NoPolicy ==
  /\ polUser = NoRecord
  /\ polNodes = <<>>
  /\ polResult = <<>>
  /\ polSector = <<>>
  /\ polPc = "off"

\* No policy call is staged, and the runtime's clock is set to UTC.
IdlePolicy ==
  /\ NoPolicy
  /\ timezone = UTC

\* No view is open and n more store operations will be issued.
OpsAllowed(n) ==
  /\ views = IdleViewRec
  /\ storeOps = n
  /\ opResult = NoOp

IdleView == OpsAllowed(0)

Init == InitStore /\ InitQuery /\ IdlePolicy /\ IdleView

Next ==
  \/ \E id \in UserIds : FindUserById(id)
  \/ \E username \in Usernames : FindUserByUsername(username)
  \/ Tick
  \/ \E e \in ExecIds, q \in queryTexts : ExecStart(e, q)
  \/ \E e \in ExecIds : ExecFilter(e)
  \/ \E e \in ExecIds : ExecAudit(e)
  \/ \E e \in ExecIds : ExecReturn(e)

Spec == Init /\ [][Next]_vars

IdleStore ==
  /\ now = 0
  /\ usersStore = users
  /\ nodesStore = graphNodes
  /\ edgesStore = graphEdges
  /\ auditLogStore = <<>>

IdleQuery ==
  /\ session = NoRecord
  /\ ledger = NoLedger
  /\ execs = [e \in ExecIds |-> IdleExec]
  /\ returned = NoReturn
  /\ started = 0
  /\ queryTexts = {}

NextPolicy == PolicyApply

InitGraph == IdleStore /\ IdleQuery /\ IdlePolicy /\ OpsAllowed(MaxGraphOps)

\* The operations on the stored graph, from the seeded data.
NextGraph ==
  \/ \E logical_id \in InputLogicalIds, level \in InputLevels,
        sector \in InputSectors : CreateNode(logical_id, level, sector)
  \/ \E logicalId \in InputLogicalIds, level \in InputLevels :
       DeleteNode(logicalId, level)
  \/ \E source_node_id \in InputNodeIds, target_node_id \in InputNodeIds,
        level \in InputLevels, logical_id \in InputEdgeLogicalIds :
       CreateEdge(source_node_id, target_node_id, level, logical_id)
  \/ \E edgeId \in InputEdgeIds : DeleteEdge(edgeId)
  \/ \E level \in InputLevels, payload \in PayloadsAtHand :
       ImportLevel(level, payload)
  \/ \E level \in InputLevels : ExportLevel(level)

SpecGraph == InitGraph /\ [][NextGraph]_vars

InitAudit ==
  /\ InitStore
  /\ InitQuery
  /\ IdlePolicy
  /\ IdleView

\* The pipeline with audit appends that may be rejected.
NextAudit ==
  \/ \E id \in UserIds : FindUserById(id)
  \/ \E e \in ExecIds, q \in AuditTexts : ExecStart(e, q)
  \/ \E e \in ExecIds, q \in AuditTexts : ExecStartAuditFails(e, q)
  \/ \E e \in ExecIds : ExecFilter(e)
  \/ \E e \in ExecIds : ExecAudit(e)
  \/ \E e \in ExecIds : ExecAuditFails(e)
  \/ \E e \in ExecIds : ExecReturn(e)
  \/ \E e \in ExecIds : ExecThrow(e)

SpecAudit == InitAudit /\ [][NextAudit]_vars

MaxPhrases == 2

\* The phrases a query text is made of.
Phrases ==
  {"ru:sensory", "ru:sobytiya", "ru:bespilotniki", "targets", "uav",
   "offline", "online", "ru:v ru:sektore a", "sector b", "ru:sekretnye",
   "ru:ili", "top 1", "top 2", "ru:poslednie 30 ru:minut", "within 2 hours",
   "ru:pryamo seychas", "lat 54.2101, 37.5203", "speed > 170",
   "threat >= high", "zzz > 5", "ru:pogoda"}

\* Texts of a few phrases, and some longer ones.
PhraseTexts ==
  {text \in SUBSET Phrases : Cardinality(text) <= MaxPhrases}
  \cup { {"ru:sensory", "online", "sector b", "ru:ili"},
         {"ru:sensory", "online", "sector b"},
         {"targets", "ru:sekretnye", "top 2", "threat >= high"},
         {"targets", "lat 54.2101, 37.5203", "top 1"},
         {"ru:sobytiya", "ru:pryamo seychas", "top 1"},
         {"targets", "within 2 hours", "speed > 170"},
         {"uav", "online", "ru:ili"} }

\* The zones of the runtime: UTC, and ten hours behind it, where the
\* reference instant falls in the first hour of the day.
Timezones == {UTC, 0 - 10}

\* One text is at hand, in one of the zones.
InitPhrases ==
  /\ IdleStore
  /\ NoPolicy
  /\ timezone \in Timezones
  /\ IdleView
  /\ session = NoRecord
  /\ ledger = NoLedger
  /\ execs = [e \in ExecIds |-> IdleExec]
  /\ returned = NoReturn
  /\ started = 0
  /\ \E text \in PhraseTexts : queryTexts = {text}

\* The pipeline on the text at hand.
NextPhrases ==
  \/ \E id \in UserIds : FindUserById(id)
  \/ \E e \in ExecIds, q \in queryTexts : ExecStart(e, q)
  \/ \E e \in ExecIds : ExecFilter(e)
  \/ \E e \in ExecIds : ExecAudit(e)
  \/ \E e \in ExecIds : ExecReturn(e)

SpecPhrases == InitPhrases /\ [][NextPhrases]_vars

FrameOptions ==
  { [mode |-> "virtual", level |-> NoAttr, overlayLevels |-> <<>>],
    [mode |-> "level", level |-> "SECRET", overlayLevels |-> <<>>] }

\* An update that takes a user's remaining budget away.
FrameUpdates ==
  {[field |-> "query_budget", text |-> NoAttr, number |-> 0]}

InitFrame ==
  /\ InitStore
  /\ InitQuery
  /\ IdlePolicy
  /\ OpsAllowed(MaxStoreOps)

\* Queries and graph views of a signed-in user, next to updates of stored
\* users.
NextFrame ==
  \/ \E id \in UserIds : FindUserById(id)
  \/ \E e \in ExecIds, q \in queryTexts : ExecStart(e, q)
  \/ \E e \in ExecIds : ExecFilter(e)
  \/ \E e \in ExecIds : ExecAudit(e)
  \/ \E e \in ExecIds : ExecReturn(e)
  \/ \E options \in FrameOptions : ViewStart(options)
  \/ ViewEdges
  \/ ViewReturn
  \/ \E id \in UserIds, updates \in FrameUpdates : UpdateUser(id, updates)

SpecFrame == InitFrame /\ [][NextFrame]_vars

(***************************************************************************)
(* getGraphData in its three modes, with the operations on the stored      *)
(* graph issued before the view or between its two reads.                  *)
(***************************************************************************)
MaxModeOps == 2

ModeOptions ==
  ViewOptions \cup
  { [mode |-> "level", level |-> NoAttr, overlayLevels |-> <<>>],
    [mode |-> "level", level |-> "UNCLASSIFIED", overlayLevels |-> <<>>],
    [mode |-> "overlay", level |-> NoAttr, overlayLevels |-> <<>>],
    [mode |-> "overlay", level |-> NoAttr, overlayLevels |-> <<"SECRET">>],
    [mode |-> "overlay", level |-> NoAttr,
     overlayLevels |-> <<"UNCLASSIFIED", "SECRET">>] }

ModeNodeIds ==
  {"post_1_UNCLASSIFIED", "post_1_SECRET", "sensor_radar_a_CONFIDENTIAL",
   "target_uav_1_CONFIDENTIAL"}
ModeEdgeLogicalIds == {"rel_event_group_b", "rel_detect_1"}

InitModes == IdleStore /\ IdleQuery /\ IdlePolicy /\ OpsAllowed(MaxModeOps)

\* The user is found before the first view is opened; the store is written
\* before a view's first read or between its two reads.
BeforeEdgesRead == views.pc \in {"idle", "awaitNodes"}

NextModes ==
  \/ \E username \in Usernames :
       views.pc = "idle" /\ FindUserByUsername(username)
  \/ \E options \in ModeOptions : ViewStart(options)
  \/ ViewEdges
  \/ ViewReturn
  \/ \E logical_id \in InputLogicalIds, level \in InputLevels,
        sector \in InputSectors :
       BeforeEdgesRead /\ CreateNode(logical_id, level, sector)
  \/ \E logicalId \in InputLogicalIds, level \in InputLevels :
       BeforeEdgesRead /\ DeleteNode(logicalId, level)
  \/ \E source_node_id \in ModeNodeIds, target_node_id \in ModeNodeIds,
        level \in InputLevels, logical_id \in ModeEdgeLogicalIds :
       BeforeEdgesRead
         /\ CreateEdge(source_node_id, target_node_id, level, logical_id)
  \/ \E edgeId \in InputEdgeIds : BeforeEdgesRead /\ DeleteEdge(edgeId)
  \/ \E level \in InputLevels, payload \in ImportPayloads :
       BeforeEdgesRead /\ ImportLevel(level, payload)

SpecModes == InitModes /\ [][NextModes]_vars

NextView ==
  \/ \E username \in Usernames : FindUserByUsername(username)
  \/ \E options \in ViewOptions : ViewStart(options)
  \/ ViewEdges
  \/ ViewReturn
  \/ \E logical_id \in InputLogicalIds, level \in InputLevels,
        sector \in InputSectors : CreateNode(logical_id, level, sector)
  \/ \E logicalId \in InputLogicalIds, level \in InputLevels :
       DeleteNode(logicalId, level)

SeededInit == IdleStore /\ IdleQuery /\ IdlePolicy /\ OpsAllowed(MaxStoreOps)

SpecView == SeededInit /\ [][NextView]_vars

NextUsers ==
  \/ \E id \in UserIds : FindUserById(id)
  \/ \E username \in Usernames : FindUserByUsername(username)
  \/ Tick
  \/ \E id \in UserIds, updates \in UserUpdates : UpdateUser(id, updates)

SpecUsers == SeededInit /\ [][NextUsers]_vars

PolicyInit == InitPolicy /\ IdleStore /\ IdleQuery /\ IdleView

SpecPolicy == PolicyInit /\ [][NextPolicy]_vars

(***************************************************************************)
(* Properties of the access policy                                         *)
(***************************************************************************)
\* The rank of a level as the specification gives it: unknown levels rank 0.
rank(level) ==
  CASE level = "CONFIDENTIAL" -> 1
    [] level = "SECRET" -> 2
    [] OTHER -> 0

HasSector(x) == Truthy(x.attributes.sector)
IsCommander(user) == user.attributes.role = "commander"
Kept(i) == \E j \in DOMAIN polResult : polResult[j] = polNodes[i]

\* C1 as stated: filterAccessibleNodes keeps N iff the user's rank is at least
\* N's and (the user is a commander, or N has no sector, or N's sector is the
\* user's), for users with or without a sector attribute.
C1_KeepsIffClearanceAndSector ==
  polPc = "done" =>
    \A i \in DOMAIN polNodes :
      Kept(i) <=>
        /\ rank(polUser.clearance_level) >= rank(polNodes[i].classification_level)
        /\ \/ IsCommander(polUser)
           \/ ~HasSector(polNodes[i])
           \/ polNodes[i].attributes.sector = polUser.attributes.sector

\* C1 amended: filterAccessibleNodes keeps N iff the user's rank is at least
\* N's and (the user is a commander, or the user has a sector and N has no
\* sector or has the user's sector); a user who is no commander and has no
\* sector is given no node.
C1_KeepsIffClearanceAndUserSector ==
  polPc = "done" =>
    \A i \in DOMAIN polNodes :
      Kept(i) <=>
        /\ rank(polUser.clearance_level) >= rank(polNodes[i].classification_level)
        /\ \/ IsCommander(polUser)
           \/ /\ HasSector(polUser)
              /\ \/ ~HasSector(polNodes[i])
                 \/ polNodes[i].attributes.sector = polUser.attributes.sector

\* A user without sector who is no commander was refused a cleared node that
\* carries no sector.
C1_Witness ==
  /\ polPc = "done"
  /\ ~IsCommander(polUser)
  /\ polUser.attributes.sector = NoAttr
  /\ \E i \in DOMAIN polNodes :
       /\ polNodes[i].attributes.sector = NoAttr
       /\ rank(polUser.clearance_level) >= rank(polNodes[i].classification_level)
       /\ ~Kept(i)

\* C8: checkSectorAccess is true for a commander whatever the user's sector;
\* otherwise false for a user without sector; otherwise true for data without
\* sector; otherwise true exactly when the two sectors are equal.
C8_SectorAccessOrder ==
  polPc = "done" =>
    \A i \in DOMAIN polNodes :
      polSector[i] =
        IF IsCommander(polUser) THEN TRUE
        ELSE IF ~HasSector(polUser) THEN FALSE
        ELSE IF ~HasSector(polNodes[i]) THEN TRUE
        ELSE polUser.attributes.sector = polNodes[i].attributes.sector

\* A commander without a sector of their own passed the check on data that
\* has a sector, and a user without sector was refused data without sector.
C8_Witness ==
  /\ polPc = "done"
  /\ \/ /\ IsCommander(polUser)
        /\ ~HasSector(polUser)
        /\ \E i \in DOMAIN polNodes : HasSector(polNodes[i]) /\ polSector[i]
     \/ /\ ~IsCommander(polUser)
        /\ ~HasSector(polUser)
        /\ \E i \in DOMAIN polNodes : ~HasSector(polNodes[i]) /\ ~polSector[i]

(***************************************************************************)
(* Properties of the stored users' budget                                  *)
(***************************************************************************)
\* The budget a reset gives, as the specification states it.
maximumBudget(level) ==
  CASE level = "SECRET" -> 20
    [] level = "CONFIDENTIAL" -> 8
    [] OTHER -> 5

OneHour == 3600000

\* A step that is a read of stored user id by findUserById or
\* findUserByUsername.
ReadOf(id) ==
  \/ FindUserById(id)
  \/ \E username \in Usernames :
       idOfUsername(username) = id /\ FindUserByUsername(username)

\* C5: a read of a user by findUserById or findUserByUsername at a time
\* now >= budget_reset_at sets the stored budget to the clearance maximum
\* (SECRET 20, CONFIDENTIAL 8, otherwise 5) and the reset time to now + 1
\* hour; a read at now < budget_reset_at changes neither field.
C5_ReadResetsWhenDue ==
  [][\A id \in UserIds :
       ReadOf(id) =>
         IF now >= usersStore[id].budget_reset_at
         THEN /\ usersStore'[id].query_budget =
                   maximumBudget(usersStore[id].clearance_level)
              /\ usersStore'[id].budget_reset_at = now + OneHour
         ELSE /\ usersStore'[id].query_budget = usersStore[id].query_budget
              /\ usersStore'[id].budget_reset_at = usersStore[id].budget_reset_at]_vars

\* A read gave back a user of UNCLASSIFIED clearance whose budget it had just
\* reset, at the very instant the reset was due, to 5 and now + 1 hour.
C5_Witness ==
  /\ session # NoRecord
  /\ now > 0
  /\ session.clearance_level = "UNCLASSIFIED"
  /\ session.query_budget = 5
  /\ session.budget_reset_at = now + OneHour
  /\ usersStore[session.id] = session

(***************************************************************************)
(* Properties of the graph views                                           *)
(***************************************************************************)
\* The user may see the item: clearance rank and sector rule.
Allowed(user, item) ==
  /\ rank(user.clearance_level) >= rank(item.classification_level)
  /\ \/ IsCommander(user)
     \/ /\ HasSector(user)
        /\ \/ ~HasSector(item)
           \/ item.attributes.sector = user.attributes.sector

\* The nodes the view read that its user may see.
Visible == {n \in Range(views.allNodes) : Allowed(views.user, n)}

VirtualDone == views.pc = "done" /\ views.options.mode = "virtual"

\* C9: in virtual mode getGraphData returns, for every logical_id that has
\* a node accessible to the user, exactly one node with that logical_id,
\* which is accessible and of the highest rank among the accessible nodes
\* with that logical_id; and it returns no node for any other logical_id.
C9_VirtualOnePerLogicalId ==
  VirtualDone =>
    /\ \A n \in Visible :
         \E i \in DOMAIN views.nodes :
           /\ views.nodes[i].logical_id = n.logical_id
           /\ views.nodes[i] \in Visible
           /\ rank(views.nodes[i].classification_level)
                >= rank(n.classification_level)
           /\ \A j \in DOMAIN views.nodes :
                views.nodes[j].logical_id = n.logical_id => j = i
    /\ \A i \in DOMAIN views.nodes :
         \E n \in Visible : n.logical_id = views.nodes[i].logical_id

\* A virtual view was returned to a user who may see two nodes with the same
\* logical_id at different levels, the lower one stored first.
C9_Witness ==
  /\ VirtualDone
  /\ \E i, j \in DOMAIN views.allNodes :
       /\ i < j
       /\ views.allNodes[i] \in Visible
       /\ views.allNodes[j] \in Visible
       /\ views.allNodes[i].logical_id = views.allNodes[j].logical_id
       /\ rank(views.allNodes[i].classification_level)
            < rank(views.allNodes[j].classification_level)

(***************************************************************************)
(* Properties of the query pipeline                                        *)
(***************************************************************************)
Processed == returned.path = "processed"

\* C2: a processed query whose final result set holds exactly 1 node
\* returns only the aggregate payload (its count, no node record) with
\* aggregated = true; one whose set holds 2 or more nodes returns the full
\* list of those nodes.
C2_AggregateBelowTwo ==
  Processed =>
    /\ returned.result.success
    /\ Len(returned.filteredNodes) = 1 =>
         /\ returned.result.data.kind = "aggregate"
         /\ returned.result.data.count = 1
         /\ returned.result.data.nodes = <<>>
         /\ returned.result.aggregated = "true"
    /\ Len(returned.filteredNodes) >= 2 =>
         /\ returned.result.data.kind = "list"
         /\ returned.result.data.nodes = returned.filteredNodes

\* Both sides of the boundary: one query came back with exactly 2 nodes
\* listed after another had been audited with exactly 1 node counted.
C2_Witness ==
  /\ Processed
  /\ Len(returned.filteredNodes) = 2
  /\ returned.result.data.kind = "list"
  /\ \E k \in DOMAIN auditLogStore :
       /\ auditLogStore[k].result_count = 1
       /\ auditLogStore[k].denial_reason = "K_ANONYMITY"

\* C3: with a user record fetched with budget B and used for one query at a
\* time, at most B recognized queries are processed, a query is denied as
\* budget-exhausted only after exactly B were processed and the query after
\* the B-th is denied; the budget, stored or in the caller's record, is
\* never negative.
C3_ExactlyBudgetProcessed ==
  /\ \A id \in UserIds : usersStore[id].query_budget >= 0
  /\ session # NoRecord => session.query_budget >= 0
  /\ ledger.serial =>
       /\ ledger.processed <= ledger.budget0
       /\ ledger.denied => ledger.processed = ledger.budget0

\* A record fetched with budget 1 served one processed query, run alone, and
\* the next query with it was denied.
C3_Witness ==
  /\ ledger.serial
  /\ ledger.budget0 = 1
  /\ ledger.processed = 1
  /\ ledger.denied
  /\ returned.path = "denied"

\* C4: of the executions run with a record that had exactly one unit of
\* budget, overlapping or not, at most one is processed.
C4_AtMostOneProcessed ==
  ledger.budget0 = 1 => ledger.processed <= 1

\* C6: a query issued at a time now >= budget_reset_at with a record whose
\* budget is 0 is not denied as budget-exhausted.
C6_ResetBeforeCheck ==
  [][\A e \in ExecIds, q \in queryTexts :
       /\ ExecStart(e, q)
       /\ session.query_budget = 0
       /\ now >= session.budget_reset_at
       /\ now >= usersStore[session.id].budget_reset_at
       => execs'[e].pc # "awaitDenyAudit"]_vars

\* The stored node the id names, for the user the id names.
AllowedTo(id, node) == Allowed(usersStore[id], node)

\* C7: no node that the user's clearance or sector rule excludes is among
\* the nodes a query holds after filtering, among the records it returns,
\* in its aggregate count or in its audited result_count.
C7_OnlyAccessibleNodes ==
  /\ \A e \in ExecIds : \A i \in DOMAIN execs[e].filteredNodes :
       AllowedTo(execs[e].user, execs[e].filteredNodes[i])
  /\ \A e \in ExecIds :
       execs[e].pc = "awaitAudit" =>
         \E k \in DOMAIN auditLogStore :
           /\ auditLogStore[k].user_id = execs[e].user
           /\ auditLogStore[k].query_text = execs[e].queryText
           /\ auditLogStore[k].result_count =
                Cardinality({i \in DOMAIN execs[e].filteredNodes :
                   AllowedTo(execs[e].user, execs[e].filteredNodes[i])})
  /\ Processed =>
       /\ \A i \in DOMAIN returned.result.data.nodes :
            /\ AllowedTo(returned.user, returned.result.data.nodes[i])
            /\ returned.result.data.nodes[i] \in Range(nodesStore)
       /\ returned.result.data.kind = "aggregate" =>
            returned.result.data.count =
              Cardinality({i \in DOMAIN returned.filteredNodes :
                 AllowedTo(returned.user, returned.filteredNodes[i])})

\* The analyst of sector A asked for the events of sector B: stored events of
\* sector B match every parsed filter, and none came back.
C7_Witness ==
  /\ Processed
  /\ returned.user = "local-analyst_a"
  /\ returned.queryText = {"ru:sobytiya", "sector b"}
  /\ returned.result.data.nodes = <<>>
  /\ \E n \in Range(nodesStore) :
       /\ n.entity_type = "Event"
       /\ n.attributes.sector = "B"
       /\ ~AllowedTo(returned.user, n)

\* C10: a call with a record whose query_budget is 0 appends exactly one
\* audit entry (result_count 0, access_granted false, BUDGET_EXHAUSTED),
\* parses nothing, reads no node, leaves the stored users as they were, and
\* returns a denial (success = false) without a further entry.
C10_DenialAtZeroBudget ==
  [][/\ \A e \in ExecIds, q \in queryTexts :
          ExecStart(e, q) /\ session.query_budget = 0 =>
            /\ execs'[e].pc = "awaitDenyAudit"
            /\ auditLogStore' =
                 <<[user_id |-> session.id, query_text |-> q,
                    query_type |-> "NL_QUERY", result_count |-> 0,
                    access_granted |-> FALSE,
                    denial_reason |-> "BUDGET_EXHAUSTED"]>> \o auditLogStore
            /\ execs'[e].parsedQuery = NoParse
            /\ execs'[e].allNodes = <<>>
            /\ usersStore' = usersStore
            /\ session' = session
     /\ \A e \in ExecIds :
          ExecReturn(e) /\ execs[e].pc = "awaitDenyAudit" =>
            /\ returned'.path = "denied"
            /\ ~returned'.result.success
            /\ ~returned'.parsed
            /\ ~returned'.read
            /\ returned'.result.data.nodes = <<>>
            /\ auditLogStore' = auditLogStore
            /\ usersStore' = usersStore]_vars

\* A call with an exhausted record returned its denial; the one audit entry
\* it wrote is the newest and the stored budget still is 0.
C10_Witness ==
  /\ returned.path = "denied"
  /\ ~returned.result.success
  /\ Len(auditLogStore) = 1
  /\ auditLogStore[1].denial_reason = "BUDGET_EXHAUSTED"
  /\ ~auditLogStore[1].access_granted
  /\ usersStore[returned.user].query_budget = 0

\* C11: a call with budget available whose query the parser reports as
\* unrecognized returns the unrecognized result (success = false) at once,
\* appends no audit entry, reads no node (no activation stays suspended) and
\* changes neither the stored users nor the caller's record.
C11_UnrecognizedTouchesNothing ==
  [][\A e \in ExecIds, q \in queryTexts :
       /\ ExecStart(e, q)
       /\ session.query_budget > 0
       /\ ~parseNaturalLanguage(q).recognized
       => /\ returned'.path = "unrecognized"
          /\ returned'.queryText = q
          /\ ~returned'.result.success
          /\ returned'.result.error = "unrecognized"
          /\ returned'.result.data.nodes = <<>>
          /\ ~returned'.read
          /\ execs' = execs
          /\ auditLogStore' = auditLogStore
          /\ usersStore' = usersStore
          /\ session' = session
          /\ nodesStore' = nodesStore]_vars

\* A query about the weather came back unrecognized for a user who has
\* budget left, and the audit log is still empty.
C11_Witness ==
  /\ returned.path = "unrecognized"
  /\ returned.queryText = {"ru:pogoda"}
  /\ session # NoRecord
  /\ session.query_budget > 0
  /\ usersStore[session.id].query_budget = session.query_budget
  /\ auditLogStore = <<>>

\* C12: a processed query appends exactly one audit entry: the step after
\* decrementBudget puts it at the head of the log, with access_granted true,
\* result_count the size of the final result set and denial_reason
\* K_ANONYMITY for size 1 and null for size 0 or at least 2; no other step of
\* a processed query touches the log.
C12_OneGrantedEntryPerProcessed ==
  [][\A e \in ExecIds :
       /\ ExecAudit(e) =>
            auditLogStore' =
              <<[user_id |-> execs[e].user,
                 query_text |-> execs[e].queryText,
                 query_type |-> "NL_QUERY",
                 result_count |-> Len(execs[e].filteredNodes),
                 access_granted |-> TRUE,
                 denial_reason |->
                   IF Len(execs[e].filteredNodes) = 1
                   THEN "K_ANONYMITY" ELSE "null"]>> \o auditLogStore
       /\ ExecFilter(e) => auditLogStore' = auditLogStore
       /\ ExecReturn(e) => auditLogStore' = auditLogStore
       /\ \A q \in queryTexts :
            ExecStart(e, q) /\ session.query_budget > 0 =>
              auditLogStore' = auditLogStore]_vars

\* Two processed queries were audited, one with a single node (reason
\* K_ANONYMITY) and one with none or with several (no reason).
C12_Witness ==
  /\ Len(auditLogStore) = 2
  /\ \A e \in ExecIds : ~InFlight(e)
  /\ \E k \in DOMAIN auditLogStore :
       /\ auditLogStore[k].result_count = 1
       /\ auditLogStore[k].access_granted
       /\ auditLogStore[k].denial_reason = "K_ANONYMITY"
  /\ \E k \in DOMAIN auditLogStore :
       /\ auditLogStore[k].result_count # 1
       /\ auditLogStore[k].access_granted
       /\ auditLogStore[k].denial_reason = "null"

\* C13 as stated, for a query run alone with its record (nothing else then
\* changes the stored budget between the query's start and its decrement):
\* the decrementBudget call of a processed query leaves the stored budget
\* exactly one lower than it was, and not below zero.
C13_StoredBudgetOneLower ==
  [][\A e \in ExecIds :
       ExecFilter(e) /\ ledger.serial =>
         /\ usersStore'[execs[e].user].query_budget =
              usersStore[execs[e].user].query_budget - 1
         /\ usersStore'[execs[e].user].query_budget >= 0]_vars

\* C13 amended: the decrementBudget call of a processed query leaves the
\* stored budget one lower than it was when the reset time is not reached,
\* and at the clearance maximum minus one, with the reset time at now + 1
\* hour, when it is reached; a stored budget of 0 stays 0; the budget is
\* never below zero and no other user's record changes.
C13_StoredBudgetOneLowerOrReset ==
  [][\A e \in ExecIds :
       ExecFilter(e) =>
         LET id == execs[e].user
             due == now >= usersStore[id].budget_reset_at
             base == IF due THEN maximumBudget(usersStore[id].clearance_level)
                     ELSE usersStore[id].query_budget
         IN /\ usersStore'[id].query_budget = IF base > 0 THEN base - 1 ELSE 0
            /\ usersStore'[id].query_budget >= 0
            /\ usersStore'[id].budget_reset_at =
                 IF due THEN now + OneHour ELSE usersStore[id].budget_reset_at
            /\ \A other \in UserIds \ {id} :
                 usersStore'[other] = usersStore[other]]_vars

\* A query run alone with a record of budget 1 reached decrementBudget when
\* the reset was due: the stored budget is the maximum minus one, not 0.
C13_Witness ==
  /\ ledger.serial
  /\ session # NoRecord
  /\ session.query_budget = 1
  /\ \E e \in ExecIds :
       /\ execs[e].pc = "awaitDecrement"
       /\ usersStore[execs[e].user].query_budget =
            maximumBudget(usersStore[execs[e].user].clearance_level) - 1
       /\ usersStore[execs[e].user].budget_reset_at = now + OneHour

LevelOf(level) ==
  CASE level \in {"secret", "SECRET", "s", "S", "h", "H"} -> "SECRET"
    [] level \in {"confidential", "CONFIDENTIAL", "c", "C", "m", "M"} -> "CONFIDENTIAL"
    [] OTHER -> "UNCLASSIFIED"

AtLevel(items, level) ==
  {x \in Range(items) : x.classification_level = LevelOf(level)}

\* C15: exporting a level and importing the payload into an empty graph
\* gives nodes and edges at that level with the same sets of node logical
\* ids, edge logical ids, entity types and relation types as the store had
\* at that level.
C15_ExportImportRoundTrip ==
  [][\A level \in InputLevels :
       ExportLevel(level) =>
         /\ {n.logical_id : n \in AtLevel(opResult'.nodes, level)}
              = {n.logical_id : n \in AtLevel(nodesStore, level)}
         /\ {n.entity_type : n \in AtLevel(opResult'.nodes, level)}
              = {n.entity_type : n \in AtLevel(nodesStore, level)}
         /\ {e.logical_id : e \in AtLevel(opResult'.edges, level)}
              = {e.logical_id : e \in AtLevel(edgesStore, level)}
         /\ {e.relation_type : e \in AtLevel(opResult'.edges, level)}
              = {e.relation_type : e \in AtLevel(edgesStore, level)}]_vars

NodeStored(logical_id, level) ==
  \E n \in Range(nodesStore) :
    n.logical_id = logical_id /\ n.classification_level = LevelOf(level)

EdgeStored(logical_id, level) ==
  \E x \in Range(edgesStore) :
    x.logical_id = logical_id /\ x.classification_level = LevelOf(level)

\* The node of that id is stored at that level.
NodeIdAt(id, level) ==
  \E n \in Range(nodesStore) :
    n.id = id /\ n.classification_level = LevelOf(level)

Refused ==
  /\ opResult'.error # NoAttr
  /\ nodesStore' = nodesStore
  /\ edgesStore' = edgesStore

\* C16: createNode with an id that exists, createEdge with a missing
\* endpoint, with an endpoint at another level or with an edge id that
\* exists, deleteNode of a missing node and deleteEdge of a missing edge
\* each end with an error and leave the node store and the edge store as
\* they were.
C16_RefusedOperationsChangeNothing ==
  [][/\ \A logical_id \in InputLogicalIds, level \in InputLevels,
          sector \in InputSectors :
          CreateNode(logical_id, level, sector) /\ NodeStored(logical_id, level)
            => Refused
     /\ \A logicalId \in InputLogicalIds, level \in InputLevels :
          DeleteNode(logicalId, level) /\ ~NodeStored(logicalId, level)
            => Refused
     /\ \A source_node_id \in InputNodeIds, target_node_id \in InputNodeIds,
          level \in InputLevels, logical_id \in InputEdgeLogicalIds :
          /\ CreateEdge(source_node_id, target_node_id, level, logical_id)
          /\ \/ ~NodeIdAt(source_node_id, level)
             \/ ~NodeIdAt(target_node_id, level)
             \/ EdgeStored(logical_id, level)
          => Refused
     /\ \A edgeId \in InputEdgeIds :
          DeleteEdge(edgeId) /\ (\A x \in Range(edgesStore) : x.id # edgeId)
            => Refused]_vars

\* After a node was created, an edge between it and a node of another level
\* was refused, and the stores hold the new node and no new edge.
C16_Witness ==
  /\ opResult.op = "createEdge"
  /\ opResult.error = "crossLevel"
  /\ storeOps = 0
  /\ Len(nodesStore) = Len(graphNodes) + 1
  /\ edgesStore = graphEdges

\* C17: the source and the target of every stored edge are ids of stored
\* nodes.
C17_EdgeEndpointsStored ==
  \A x \in Range(edgesStore) :
    /\ \E n \in Range(nodesStore) : n.id = x.source_node_id
    /\ \E n \in Range(nodesStore) : n.id = x.target_node_id

\* C18: the level of every stored edge is the level of both of its
\* endpoint nodes.
C18_EdgeLevelIsEndpointLevel ==
  \A x \in Range(edgesStore) :
    \A n \in Range(nodesStore) :
      n.id \in {x.source_node_id, x.target_node_id} =>
        n.classification_level = x.classification_level

\* C19: no two stored nodes have the same id, no two stored edges have the
\* same id, and the id of every node is its logical_id, "_" and its level.
C19_IdsUniqueAndDerived ==
  /\ \A i, j \in DOMAIN nodesStore :
       nodesStore[i].id = nodesStore[j].id => i = j
  /\ \A i, j \in DOMAIN edgesStore :
       edgesStore[i].id = edgesStore[j].id => i = j
  /\ \A n \in Range(nodesStore) :
       n.id = n.logical_id \o "_" \o n.classification_level

\* The fields of a stored user other than the budget fields.
BesidesBudget(user) ==
  [user EXCEPT !.query_budget = 0, !.budget_reset_at = 0]

\* The audit entries of before are those of after, behind at most the
\* given number of new entries at the front.
AuditKept(most) ==
  LET added == Len(auditLogStore') - Len(auditLogStore)
  IN /\ added \in 0..most
     /\ \A i \in DOMAIN auditLogStore :
          auditLogStore'[i + added] = auditLogStore[i]

\* Execution e passes from position from to position to.
Passes(e, from, to) == execs[e].pc = from /\ execs'[e].pc = to

\* C20: a step of executeNaturalLanguageQuery or of getGraphData leaves the
\* node store, the edge store and every other user's record as they are;
\* a query changes the stored record of its caller only at its one
\* decrementBudget call and only in the budget fields, and adds an audit
\* entry only at its one logAuditEntry call, one entry; getGraphData changes
\* no store; and no step of any operation alters or removes an existing
\* audit entry.
C20_QueriesAndViewsFrame ==
  [][ /\ AuditKept(1)
      /\ (started' # started \/ execs' # execs \/ views' # views) =>
           /\ nodesStore' = nodesStore
           /\ edgesStore' = edgesStore
           /\ \A id \in UserIds :
                usersStore'[id] # usersStore[id] =>
                  /\ \E e \in ExecIds :
                       /\ Passes(e, "awaitNodes", "awaitDecrement")
                       /\ execs[e].user = id
                  /\ BesidesBudget(usersStore'[id]) = BesidesBudget(usersStore[id])
           /\ auditLogStore' # auditLogStore =>
                \E e \in ExecIds : \/ Passes(e, "idle", "awaitDenyAudit")
                                   \/ Passes(e, "awaitDecrement", "awaitAudit")
           /\ views' # views => UNCHANGED <<usersStore, auditLogStore>> ]_vars

\* C20 witness: two queries of one caller were answered and a graph view
\* was returned; the audit log holds their two entries, the caller's stored
\* budget went down, and the graph and the other user's record are those of
\* the start.
C20_Witness ==
  /\ Len(auditLogStore) = 2
  /\ auditLogStore[1].access_granted
  /\ auditLogStore[1].query_text # auditLogStore[2].query_text
  /\ returned.path = "processed"
  /\ views.pc = "done"
  /\ storeOps = MaxStoreOps
  /\ nodesStore = graphNodes
  /\ edgesStore = graphEdges
  /\ usersStore[returned.user].query_budget
       < getMaxBudget(usersStore[returned.user].clearance_level)
  /\ \A id \in UserIds \ {returned.user} :
       BesidesBudget(usersStore[id]) = BesidesBudget(users[id])

\* The category words of the data, as the category filters name them.
CategoryWord(category) ==
  CASE category = "UAV" -> "uav"
    [] category = "Helicopter" -> "helicopter"
    [] category = "Unknown" -> "unknown"
    [] category = "AirGroup" -> "airgroup"
    [] OTHER -> category

\* The node meets each of the entity, sector, level, status and category
\* filters that the parsed query holds.
MeetsEvery(parsed, node) ==
  /\ parsed.entityType # NoAttr => node.entity_type = parsed.entityType
  /\ parsed.sectorFilters # {} => node.attributes.sector \in parsed.sectorFilters
  /\ parsed.levelFilter # NoAttr =>
       node.classification_level = parsed.levelFilter
  /\ parsed.statusFilters # {} => node.attributes.status \in parsed.statusFilters
  /\ parsed.categoryFilters # {} =>
       CategoryWord(node.attributes.category) \in parsed.categoryFilters

\* The parsed query with the other logic flag.
Flipped(parsed) ==
  [parsed EXCEPT !.logicOperator = IF @ = "OR" THEN "AND" ELSE "OR"]

BestTime(node) ==
  CASE node.attributes.last_seen # NoNum -> node.attributes.last_seen
    [] node.attributes.last_seen = NoNum /\ node.attributes.timestamp # NoNum ->
         node.attributes.timestamp
    [] OTHER -> IF node.updated_at # NoNum THEN node.updated_at
                ELSE node.created_at

\* The nodes the query of the returned result is left with when its limit
\* is taken away.
BeforeLimit ==
  filterNodes(usersStore[returned.user],
              [parseNaturalLanguage(returned.queryText) EXCEPT !.limit = NoNum],
              nodesStore)

\* The limit of the query of the returned result; 0 when it has none.
LimitAsked ==
  LET limit == parseNaturalLanguage(returned.queryText).limit
  IN IF limit = NoNum THEN 0 ELSE limit

\* C26: a processed query with limit L > 0 over more than L remaining nodes
\* is left with exactly L of them, none of them older than a dropped one;
\* over at most L remaining nodes it is left with all of them, in order.
C26_LimitKeepsNewest ==
  returned.path = "processed" /\ LimitAsked > 0 =>
    IF Len(BeforeLimit) > LimitAsked
    THEN /\ Len(returned.filteredNodes) = LimitAsked
         /\ Range(returned.filteredNodes) \subseteq Range(BeforeLimit)
         /\ \A kept \in Range(returned.filteredNodes) :
              \A dropped \in Range(BeforeLimit) \ Range(returned.filteredNodes) :
                BestTime(kept) >= BestTime(dropped)
    ELSE returned.filteredNodes = BeforeLimit

\* C26 witness: a processed query with limit 2 had more than two nodes to
\* choose from and is left with two that are not the first two of them.
C26_Witness ==
  /\ returned.path = "processed"
  /\ LimitAsked = 2
  /\ Len(BeforeLimit) > 2
  /\ Len(returned.filteredNodes) = 2
  /\ returned.filteredNodes # SubSeq(BeforeLimit, 1, 2)

\* The minutes of the relative time window of a text; 0 when it names none.
WindowMinutes(text) ==
  IF "ru:poslednie 30 ru:minut" \in text THEN 30
  ELSE IF "within 2 hours" \in text THEN 120
  ELSE IF "ru:pryamo seychas" \in text THEN 15
  ELSE 0

\* The reference instant of the data, 2024-05-12T10:00Z, in minutes of
\* that day.
ReferenceMinute == 600

\* C27: a query with a relative time window of N minutes keeps a node only
\* if the node's timestamp is no earlier than the reference instant minus N
\* minutes.
C27_WindowInMinutes ==
  returned.path = "processed" /\ WindowMinutes(returned.queryText) > 0 =>
    \A node \in Range(returned.filteredNodes) :
      BestTime(node) >= ReferenceMinute - WindowMinutes(returned.queryText)

\* The phrases that name an entity type, a category or a status, and the
\* comparisons whose identifier is an alias of an attribute.
NamesEntity == {"ru:sensory", "ru:sobytiya", "ru:bespilotniki", "targets",
                "uav", "ru:v ru:sektore a", "sector b"}
NamesCategory == {"ru:bespilotniki", "uav"}
NamesStatus == {"offline", "online"}
ComparesAttribute == {"speed > 170", "threat >= high"}

\* The phrases of a level, a time window, a place or a limit, a comparison
\* of an unknown identifier, and the words that name nothing.
NamesNothingElse ==
  {"ru:sekretnye", "top 1", "top 2", "ru:poslednie 30 ru:minut",
   "within 2 hours", "ru:pryamo seychas", "lat 54.2101, 37.5203",
   "zzz > 5", "ru:ili", "ru:pogoda"}

\* C28: a query is reported as unrecognized exactly when its text gave no
\* entity type, no category, no status and no comparison of a known
\* attribute; a level, a time window, a place or a limit, or a comparison
\* of an unknown identifier, does not make it recognized.
C28_UnrecognizedIffNothingNamed ==
  returned.path \in {"unrecognized", "processed"} =>
    /\ returned.path = "unrecognized" <=>
         returned.queryText \cap (NamesEntity \cup NamesCategory
                                    \cup NamesStatus \cup ComparesAttribute) = {}
    /\ returned.queryText \subseteq NamesNothingElse =>
         returned.path = "unrecognized"

\* C28 witness: a text of a limit and a comparison with an unknown
\* identifier was reported as unrecognized, with no audit entry.
C28_Witness ==
  /\ returned.path = "unrecognized"
  /\ returned.queryText = {"top 1", "zzz > 5"}
  /\ auditLogStore = <<>>

\* C29: a processed query with limit 1 over two or more matching accessible
\* nodes is left with one node, returns the aggregate with count 1 and no
\* records, and is audited as granted with result_count 1 and the reason
\* K_ANONYMITY.
C29_GateAfterLimit ==
  returned.path = "processed" /\ LimitAsked = 1 /\ Len(BeforeLimit) >= 2 =>
    /\ Len(returned.filteredNodes) = 1
    /\ returned.result.success
    /\ returned.result.aggregated = "true"
    /\ returned.result.data.kind = "aggregate"
    /\ returned.result.data.count = 1
    /\ returned.result.data.nodes = <<>>
    /\ returned.result.denialReason = "K_ANONYMITY"
    /\ \E i \in DOMAIN auditLogStore :
         /\ auditLogStore[i].query_text = returned.queryText
         /\ auditLogStore[i].user_id = returned.user
         /\ auditLogStore[i].access_granted
    /\ \A i \in DOMAIN auditLogStore :
         auditLogStore[i].user_id = returned.user
           /\ auditLogStore[i].access_granted =>
           /\ auditLogStore[i].result_count = 1
           /\ auditLogStore[i].denial_reason = "K_ANONYMITY"

\* C29 witness: the commander's query for the newest event, of five events,
\* was answered with the aggregate.
C29_Witness ==
  /\ returned.path = "processed"
  /\ returned.user = "local-commander"
  /\ returned.queryText = {"ru:sobytiya", "top 1"}
  /\ Len(BeforeLimit) = 5
  /\ returned.result.aggregated = "true"
  /\ Len(auditLogStore) = 1

\* C30: when a call returns, no other call being in flight and none having
\* overlapped another, the query_budget of the caller's record is the
\* stored query_budget of that user.
C30_CallerRecordIsStoredBudget ==
  [][\A e \in ExecIds :
       /\ ExecReturn(e)
       /\ ledger.serial
       /\ \A other \in ExecIds \ {e} : execs[other].pc = "idle"
       => session'.query_budget = usersStore'[session'.id].query_budget]_vars

(***************************************************************************)
(* Properties of the level, overlay and virtual views                      *)
(***************************************************************************)
\* The levels the specification calls accessible to the user.
AccessibleLevelsOf(user) ==
  {level \in {"UNCLASSIFIED", "CONFIDENTIAL", "SECRET"} :
     rank(level) <= rank(user.clearance_level)}

HighestAccessible(user) ==
  CHOOSE level \in AccessibleLevelsOf(user) :
    \A other \in AccessibleLevelsOf(user) : rank(other) <= rank(level)

\* The edges the view read that its user may see.
VisibleEdges == {e \in Range(views.allEdges) : Allowed(views.user, e)}

IdsOf(nodes) == {n.id : n \in nodes}

\* The edges of the given levels the user may see, both ends among the nodes.
EdgesAmong(levels, nodes) ==
  {e \in VisibleEdges :
     /\ e.classification_level \in levels
     /\ e.source_node_id \in IdsOf(nodes)
     /\ e.target_node_id \in IdsOf(nodes)}

LevelDone == views.pc = "done" /\ views.options.mode = "level"

TargetOf ==
  IF views.options.level \in AccessibleLevelsOf(views.user)
  THEN views.options.level
  ELSE HighestAccessible(views.user)

\* C22: in level mode the target level is the requested level when it is
\* accessible to the user and the user's highest accessible level otherwise;
\* the view returns exactly the accessible nodes at the target level and
\* exactly the accessible edges at the target level whose source and target
\* are both among those nodes.
C22_LevelView ==
  LevelDone =>
    LET nodes == {n \in Visible : n.classification_level = TargetOf}
    IN /\ Range(views.nodes) = nodes
       /\ Range(views.edges) = EdgesAmong({TargetOf}, nodes)

\* A level view was returned to a user who asked for a level above the
\* clearance, and it holds nodes.
C22_Witness ==
  /\ LevelDone
  /\ views.options.level \notin AccessibleLevelsOf(views.user)
  /\ views.options.level = "SECRET"
  /\ views.nodes # <<>>

OverlayDone == views.pc = "done" /\ views.options.mode = "overlay"

EffectiveOf ==
  LET requested == Range(views.options.overlayLevels)
                     \cap AccessibleLevelsOf(views.user)
  IN IF requested = {} THEN AccessibleLevelsOf(views.user) ELSE requested

\* C23: in overlay mode the effective levels are the requested levels that
\* are accessible to the user, or all accessible levels when there is none;
\* the view returns exactly the accessible nodes at those levels and exactly
\* the accessible edges at those levels whose two ends are returned nodes,
\* and nothing of a level outside the user's accessible levels.
C23_OverlayView ==
  OverlayDone =>
    LET nodes == {n \in Visible : n.classification_level \in EffectiveOf}
    IN /\ Range(views.nodes) = nodes
       /\ Range(views.edges) = EdgesAmong(EffectiveOf, nodes)
       /\ \A x \in Range(views.nodes) \cup Range(views.edges) :
            x.classification_level \in AccessibleLevelsOf(views.user)

\* An overlay view was returned to a user none of whose requested levels is
\* accessible, and it holds nodes.
C23_Witness ==
  /\ OverlayDone
  /\ views.options.overlayLevels # <<>>
  /\ Range(views.options.overlayLevels) \cap AccessibleLevelsOf(views.user) = {}
  /\ views.nodes # <<>>

\* The nodes read with the given id, and the returned nodes with a logical id.
OriginalOf(id) == {n \in Range(views.allNodes) : n.id = id}
ChosenFor(logicalId) == {n \in Range(views.nodes) : n.logical_id = logicalId}

\* Both ends of the edge were read and their logical ids have a chosen node.
Survives(e) ==
  /\ \E s \in OriginalOf(e.source_node_id) : ChosenFor(s.logical_id) # {}
  /\ \E t \in OriginalOf(e.target_node_id) : ChosenFor(t.logical_id) # {}

\* r is e with its ends replaced by the chosen nodes of their logical ids.
Repointed(e, r) ==
  \E s \in OriginalOf(e.source_node_id), t \in OriginalOf(e.target_node_id) :
    \E bs \in ChosenFor(s.logical_id), bt \in ChosenFor(t.logical_id) :
      r = [e EXCEPT !.source_node_id = bs.id, !.target_node_id = bt.id]

\* Every returned edge is an accessible edge re-pointed to the chosen nodes,
\* which are returned; at most one edge is returned per logical_id.
RepointedOncePerLogicalId ==
  /\ \A r \in Range(views.edges) :
       /\ \E e \in VisibleEdges : Repointed(e, r)
       /\ r.source_node_id \in IdsOf(Range(views.nodes))
       /\ r.target_node_id \in IdsOf(Range(views.nodes))
  /\ \A i, j \in DOMAIN views.edges :
       views.edges[i].logical_id = views.edges[j].logical_id => i = j

\* C24 as stated: in virtual mode every returned edge joins the chosen nodes
\* of its original ends' logical ids, both returned; an accessible edge with
\* an end that has no chosen node is dropped; at most one edge is returned
\* per logical_id, one of the highest rank among the accessible edges with
\* that logical_id.
C24_VirtualEdges ==
  VirtualDone =>
    /\ RepointedOncePerLogicalId
    /\ \A r \in Range(views.edges), e \in VisibleEdges :
         e.logical_id = r.logical_id
           => rank(r.classification_level) >= rank(e.classification_level)

\* C24 amended: the returned edge is of the highest rank among the
\* accessible edges with its logical_id that are not dropped, and every
\* logical_id of such an edge has a returned edge.
C24_VirtualEdgesAmongKept ==
  VirtualDone =>
    /\ RepointedOncePerLogicalId
    /\ \A e \in VisibleEdges :
         Survives(e) =>
           \E r \in Range(views.edges) :
             /\ r.logical_id = e.logical_id
             /\ rank(r.classification_level) >= rank(e.classification_level)

\* A virtual view was returned that read two accessible edges with one
\* logical_id, neither dropped, the one of lower rank stored first.
C24_Witness ==
  /\ VirtualDone
  /\ \E i, j \in DOMAIN views.allEdges :
       /\ i < j
       /\ views.allEdges[i] \in VisibleEdges
       /\ views.allEdges[j] \in VisibleEdges
       /\ Survives(views.allEdges[i])
       /\ Survives(views.allEdges[j])
       /\ views.allEdges[i].logical_id = views.allEdges[j].logical_id
       /\ rank(views.allEdges[i].classification_level)
            < rank(views.allEdges[j].classification_level)

\* C25: when nodes or edges are created, deleted or imported between the
\* view's read of the nodes and its read of the edges, the view still has
\* a result to return for what it read, and in every mode each returned
\* edge has its source and its target among the returned nodes.
C25_EdgesJoinReturnedNodes ==
  /\ views.pc = "awaitEdges" =>
       LET data == getGraphData(views.user, views.options,
                                views.allNodes, views.allEdges)
       IN Len(data.nodes) >= 0 /\ Len(data.edges) >= 0
  /\ views.pc = "done" =>
       \A r \in Range(views.edges) :
         /\ r.source_node_id \in IdsOf(Range(views.nodes))
         /\ r.target_node_id \in IdsOf(Range(views.nodes))

\* A view returned edges after it read an accessible edge whose source was
\* stored only after the nodes had been read.
C25_Witness ==
  /\ views.pc = "done"
  /\ views.edges # <<>>
  /\ \E e \in VisibleEdges :
       /\ e.source_node_id \notin IdsOf(Range(views.allNodes))
       /\ e.source_node_id \in IdsOf(Range(nodesStore))
====
